---- MODULE Spec2Model ----
(***************************************************************************)
(* Model of the db-client application state (src/src/app.rs, struct App),  *)
(* of the tokio task that establishes a connection, and of the query       *)
(* executor.  SQL text is a sequence of one-character strings, so that the *)
(* byte positions computed by find/rfind and the slices taken at them are  *)
(* those of the Rust code (ASCII text: one character is one byte).         *)
(* Messages shown to the user are TLA+ strings built with \o as format!    *)
(* builds them.  Option<T> is a sequence of length at most one.            *)
(***************************************************************************)
EXTENDS Integers, Sequences, FiniteSets, TLC

VARIABLES app, tasks, backend_log, panicked

vars == <<app, tasks, backend_log, panicked>>

\* ------------------------------------------------------------------ bounds
MaxAttempts == 2
NumConnections == 2
MaxHistory == 1
ClockStep == 120

\* ------------------------------------------------------- program constants
timeout_duration == 120
DefaultResultsPerPage == 50
HistoryCap == 50

\* ----------------------------------------------------------------- Option
None == <<>>
Some(v) == <<v>>
is_some(o) == Len(o) = 1
is_none(o) == Len(o) = 0
unwrap(o) == o[1]

\* ------------------------------------------------------------ str methods
LowerCase == <<"a","b","c","d","e","f","g","h","i","j","k","l","m","n","o","p","q","r","s","t","u","v","w","x","y","z">>
Digits == <<"0","1","2","3","4","5","6","7","8","9">>

IndexIn(c, s) == IF \E i \in 1..Len(s) : s[i] = c
                 THEN CHOOSE i \in 1..Len(s) : s[i] = c
                 ELSE 0

ToUpperTable ==
  LET UpperCase == <<"A","B","C","D","E","F","G","H","I","J","K","L","M","N","O","P","Q","R","S","T","U","V","W","X","Y","Z">>
  IN [c \in {LowerCase[i] : i \in 1..Len(LowerCase)} |->
        UpperCase[IndexIn(c, LowerCase)]]

char_to_uppercase(c) == IF c \in DOMAIN ToUpperTable THEN ToUpperTable[c] ELSE c

RECURSIVE to_uppercase(_)
to_uppercase(s) == IF Len(s) = 0 THEN <<>>
                   ELSE <<char_to_uppercase(Head(s))>> \o to_uppercase(Tail(s))

is_whitespace(c) == c \in {" ", "\t", "\n", "\r"}

\* s[from..to] of Rust: 0-based byte positions, `to` exclusive
Slice(s, from, to) == SubSeq(s, from + 1, to)

trim_start(s) ==
  LET n == Len(s)
      k == IF \E i \in 1..n : ~is_whitespace(s[i])
           THEN (CHOOSE i \in 1..n : ~is_whitespace(s[i])
                                     /\ \A j \in 1..(i-1) : is_whitespace(s[j])) - 1
           ELSE n
  IN Slice(s, k, n)

trim_end(s) ==
  LET n == Len(s)
      k == IF \E i \in 1..n : ~is_whitespace(s[i])
           THEN CHOOSE i \in 1..n : ~is_whitespace(s[i])
                                    /\ \A j \in (i+1)..n : is_whitespace(s[j])
           ELSE 0
  IN Slice(s, 0, k)

trim(s) == trim_end(trim_start(s))

trim_end_matches(s, c) ==
  LET n == Len(s)
      k == IF \E i \in 1..n : s[i] # c
           THEN CHOOSE i \in 1..n : s[i] # c /\ \A j \in (i+1)..n : s[j] = c
           ELSE 0
  IN Slice(s, 0, k)

MatchAt(s, p, pos) == /\ pos + Len(p) <= Len(s)
                      /\ \A j \in 1..Len(p) : s[pos + j] = p[j]

starts_with(s, p) == MatchAt(s, p, 0)

Matches(s, p) == {pos \in 0..Len(s) : MatchAt(s, p, pos)}

contains(s, p) == Matches(s, p) # {}

\* Option<usize>: byte position of the first / last occurrence
find(s, p) == LET m == Matches(s, p)
              IN IF m # {}
                 THEN Some(CHOOSE pos \in m : \A q \in m : pos <= q)
                 ELSE None

rfind(s, p) == LET m == Matches(s, p)
               IN IF m # {}
                  THEN Some(CHOOSE pos \in m : \A q \in m : pos >= q)
                  ELSE None

\* usize / i64 Display
RECURSIVE usize_to_string(_)
usize_to_string(n) == IF n < 10 THEN <<Digits[n + 1]>>
                      ELSE usize_to_string(n \div 10) \o <<Digits[(n % 10) + 1]>>

i64_to_string(n) == IF n < 0 THEN <<"-">> \o usize_to_string(0 - n) ELSE usize_to_string(n)

\* str::parse::<usize>: an optional '+', then one or more decimal digits
RECURSIVE digits_value(_)
digits_value(s) == IF Len(s) = 0 THEN 0
                   ELSE 10 * digits_value(SubSeq(s, 1, Len(s) - 1))
                        + (IndexIn(s[Len(s)], Digits) - 1)

parse_usize(s) ==
  LET body == IF Len(s) > 0 /\ s[1] = "+" THEN Tail(s) ELSE s
  IN IF Len(body) > 0 /\ \A i \in 1..Len(body) : IndexIn(body[i], Digits) > 0
     THEN Some(digits_value(body))
     ELSE None

\* ------------------------------------------------------------- descriptors
default_connections ==
  << [name |-> "Sample SQLite", database_type |-> "SQLite",
      connection_string |-> <<"s","q","l","i","t","e",":",":","m","e","m","o","r","y",":">>, ssl_config |-> None],
     [name |-> "Local PostgreSQL", database_type |-> "PostgreSQL",
      connection_string |-> <<"p","o","s","t","g","r","e","s","q","l",":","/","/","u","s","e","r",":","p","a","s","s","w","o","r","d","@","l","o","c","a","l","h","o","s","t","/","d","b","n","a","m","e">>,
      ssl_config |-> None],
     [name |-> "Local MySQL", database_type |-> "MySQL",
      connection_string |-> <<"m","y","s","q","l",":","/","/","u","s","e","r",":","p","a","s","s","w","o","r","d","@","l","o","c","a","l","h","o","s","t","/","d","b","n","a","m","e">>,
      ssl_config |-> None] >>

\* ------------------------------------------------- answers of the database
\* Display texts of the errors the driver reports (inputs of the model).
ConnectErrors == {"pool timed out while waiting for an open connection"}
QueryErrors == {"error returned from database: no such table: t"}

Ok(v) == [ok |-> TRUE, value |-> v, msg |-> ""]
Err(e) == [ok |-> FALSE, value |-> <<>>, msg |-> e]

TableListings == {<<>>,
                  <<[name |-> "users", schema |-> None, row_count |-> Some(2)]>>}
ColumnListings == {<<[name |-> "id", data_type |-> "INTEGER",
                      is_nullable |-> FALSE, is_primary_key |-> TRUE]>>}

GetTablesAnswers == {Ok(t) : t \in TableListings} \cup {Err(e) : e \in QueryErrors}
GetTableColumnsAnswers == {Ok(c) : c \in ColumnListings} \cup {Err(e) : e \in QueryErrors}

\* ------------------------------------------------------------ tokio tasks
\* One record per spawned task: the future (status, result), the timer of
\* its timeout, its CancellationToken and what became of its JoinHandle.
Pending == [kind |-> "Pending", msg |-> ""]
TaskOk == [kind |-> "Ok", msg |-> ""]
TaskErr(e) == [kind |-> "Err", msg |-> e]
JoinError(e) == [kind |-> "JoinError", msg |-> e]

\* The pool a task hands over is identified by the task that opened it.
PoolOf(t, id) == [attempt |-> id, config |-> t[id].config]

is_finished(t, id) == t[id].status = "finished"

\* Result of the select! of perform_connection, by the branch that won:
\* connect returned a pool or an error, the timeout elapsed, or the token was
\* cancelled.
perform_connection(race) ==
  CASE race.kind = "connected" -> TaskOk
    [] race.kind = "connect_error" -> TaskErr(race.msg)
    [] race.kind = "elapsed" -> TaskErr("Connection failed: " \o "deadline has elapsed")
    [] race.kind = "cancelled" -> TaskErr("Connection cancelled")

ConnectRaces == {[kind |-> "connected", msg |-> ""]}
                \cup {[kind |-> "connect_error", msg |-> e] : e \in ConnectErrors}

spawn(t, config) ==
  Append(t, [config |-> config, status |-> "running", race |-> "none",
             result |-> Pending, elapsed |-> 0, token_cancelled |-> FALSE,
             handle |-> "held"])

\* CancellationToken::cancel
cancel(t, id) == [t EXCEPT ![id].token_cancelled = TRUE]

\* The drop of a JoinHandle: the runtime frees the task with its result.  What
\* is kept of it is what became of the handle and, for a task that was never
\* joined, whether it had returned a pool (the pool is closed unused).
Dropped == [kind |-> "Dropped", msg |-> ""]

drop(t, id, how) ==
  [t EXCEPT ![id].handle = how,
            ![id].status = "finished",
            ![id].config = [name |-> "", database_type |-> "",
                            connection_string |-> <<>>, ssl_config |-> None],
            ![id].elapsed = 0,
            ![id].race = IF t[id].race = "connected" /\ how = "aborted"
                         THEN "connected" ELSE "dropped",
            ![id].result = IF t[id].result.kind = "Ok" /\ how = "aborted"
                           THEN TaskOk ELSE Dropped]

\* JoinHandle::abort followed by the drop of the handle.  A finished task
\* is not affected by the abort; a running one ends at its next poll, in the
\* cancelled branch of its select! or by the abort itself.  In both cases
\* nobody can read the result any more.
abort(t, id) == drop(t, id, "aborted")

\* ------------------------------------------------------ the connection form
\* ConnectionForm::default
DefaultConnectionForm ==
  [name |-> <<>>,
   connection_string |-> <<>>,
   current_field |-> "Name",
   database_type |-> "PostgreSQL",
   host |-> <<"l","o","c","a","l","h","o","s","t">>,
   port |-> <<"5","4","3","2">>,
   username |-> <<>>,
   password |-> <<>>,
   database |-> <<>>,
   use_ssl |-> FALSE,
   ssl_mode |-> "Disable",
   ssl_cert_file |-> <<>>,
   ssl_key_file |-> <<>>,
   ssl_ca_file |-> <<>>]

\* ------------------------------------------------------------- struct App
new_app(connections) ==
  [should_quit |-> FALSE,
   current_screen |-> "ConnectionList",
   connection_form |-> DefaultConnectionForm,
   editing_connection_index |-> None,
   connections |-> connections,
   selected_connection_index |-> 0,
   current_connection |-> None,
   database_pool |-> None,
   tables |-> <<>>,
   selected_table_index |-> 0,
   table_columns |-> <<>>,
   query_history |-> <<>>,
   current_query_result |-> None,
   result_scroll_x |-> 0,
   result_scroll_y |-> 0,
   selected_column_index |-> 0,
   current_page |-> 0,
   results_per_page |-> DefaultResultsPerPage,
   selected_row_index |-> 0,
   error_message |-> None,
   status_message |-> None,
   is_connecting |-> FALSE,
   connection_task |-> None,
   cancel_token |-> None]

St(a, t) == [app |-> a, tasks |-> t, panic |-> FALSE]
Panic(a, t) == [app |-> a, tasks |-> t, panic |-> TRUE]

\* cancel_connection that signals the token and resets the flags but leaves
\* the JoinHandle in its slot
cancel_connection_keeps_task(a, t) ==
  LET t1 == IF is_some(a.cancel_token) THEN cancel(t, unwrap(a.cancel_token)) ELSE t
  IN St([a EXCEPT !.is_connecting = FALSE,
                  !.status_message = Some("Connection cancelled"),
                  !.cancel_token = None],
        t1)

\* cancel_connection that records no message
cancel_connection_silent(a, t) ==
  LET t1 == IF is_some(a.cancel_token) THEN cancel(t, unwrap(a.cancel_token)) ELSE t
      t2 == IF is_some(a.connection_task)
            THEN abort(t1, unwrap(a.connection_task))
            ELSE t1
  IN St([a EXCEPT !.is_connecting = FALSE,
                  !.connection_task = None,
                  !.cancel_token = None],
        t2)

\* App::cancel_connection
cancel_connection(a, t) ==
  LET t1 == IF is_some(a.cancel_token) THEN cancel(t, unwrap(a.cancel_token)) ELSE t
      t2 == IF is_some(a.connection_task)
            THEN abort(t1, unwrap(a.connection_task))
            ELSE t1
  IN St([a EXCEPT !.is_connecting = FALSE,
                  !.status_message = Some("Connection cancelled"),
                  !.connection_task = None,
                  !.cancel_token = None],
        t2)

\* start_connection that spawns without cancelling what is in flight
start_connection_without_cancel(a, t, connection_index) ==
  IF connection_index >= Len(a.connections)
  THEN St(a, t)
  ELSE LET config == a.connections[connection_index + 1]
           t1 == spawn(t, config)
           id == Len(t1)
       IN St([a EXCEPT
                !.status_message = Some("Connecting to " \o config.name \o "..."),
                !.is_connecting = TRUE,
                !.cancel_token = Some(id),
                !.connection_task = Some(id)],
             t1)

\* start_connection that keeps an attempt already in the slot and drops the
\* handle of the one it spawns
start_connection_keeps_first(a, t, connection_index) ==
  IF connection_index >= Len(a.connections)
  THEN St(a, t)
  ELSE LET config == a.connections[connection_index + 1]
           t1 == spawn(t, config)
           id == Len(t1)
       IN IF is_some(a.connection_task)
          THEN St([a EXCEPT
                     !.status_message = Some("Connecting to " \o config.name \o "..."),
                     !.is_connecting = TRUE],
                  [t1 EXCEPT ![id].handle = "aborted"])
          ELSE St([a EXCEPT
                     !.status_message = Some("Connecting to " \o config.name \o "..."),
                     !.is_connecting = TRUE,
                     !.cancel_token = Some(id),
                     !.connection_task = Some(id)],
                  t1)

\* App::start_connection; an index outside the list returns Err and changes
\* nothing.
start_connection(a, t, connection_index) ==
  IF connection_index >= Len(a.connections)
  THEN St(a, t)
  ELSE LET c == cancel_connection(a, t)
           config == c.app.connections[connection_index + 1]
           t1 == spawn(c.tasks, config)
           id == Len(t1)
       IN St([c.app EXCEPT
                !.status_message = Some("Connecting to " \o config.name \o "..."),
                !.is_connecting = TRUE,
                !.cancel_token = Some(id),
                !.connection_task = Some(id)],
             t1)

\* App::refresh_table_columns, with the answer of get_table_columns
refresh_table_columns(a, columns_answer) ==
  IF is_some(a.database_pool)
  THEN IF a.selected_table_index < Len(a.tables)
       THEN IF columns_answer.ok
            THEN [app |-> [a EXCEPT !.table_columns = columns_answer.value],
                  result |-> Ok(<<>>)]
            ELSE [app |-> [a EXCEPT !.error_message =
                             Some("Failed to load table columns: " \o columns_answer.msg)],
                  result |-> Err(columns_answer.msg)]
       ELSE [app |-> a, result |-> Ok(<<>>)]
  ELSE [app |-> a, result |-> Err("No database connection")]

\* App::refresh_tables, with the answers of get_tables and get_table_columns
refresh_tables(a, tables_answer, columns_answer) ==
  IF is_some(a.database_pool)
  THEN IF tables_answer.ok
       THEN LET a1 == [a EXCEPT !.tables = tables_answer.value,
                                !.selected_table_index = 0]
            IN IF Len(a1.tables) > 0
               THEN refresh_table_columns(a1, columns_answer)
               ELSE [app |-> a1, result |-> Ok(<<>>)]
       ELSE [app |-> [a EXCEPT !.error_message =
                        Some("Failed to load tables: " \o tables_answer.msg)],
             result |-> Err(tables_answer.msg)]
  ELSE [app |-> a, result |-> Err("No database connection")]

\* check_connection_task that does not put an unfinished task back
check_connection_task_drops_unfinished(a, t, tables_answer, columns_answer) ==
  IF is_none(a.connection_task)
  THEN St(a, t)
  ELSE
    LET id == unwrap(a.connection_task)
        taken == [a EXCEPT !.connection_task = None]
        joined == drop(t, id, "joined")
        result == t[id].result
        cleared(x) == [x EXCEPT !.connection_task = None, !.cancel_token = None]
    IN IF is_finished(t, id)
       THEN CASE result.kind = "Ok" ->
                   LET a1 == [taken EXCEPT
                                !.database_pool = Some(PoolOf(t, id)),
                                !.current_connection = Some(a.selected_connection_index),
                                !.current_screen = "TableBrowser"]
                   IN IF a.selected_connection_index >= Len(a.connections)
                      THEN Panic(a1, joined)
                      ELSE LET a2 == [a1 EXCEPT
                                        !.status_message = Some("Connected to " \o
                                           a.connections[a.selected_connection_index + 1].name),
                                        !.error_message = None,
                                        !.is_connecting = FALSE]
                               r == refresh_tables(a2, tables_answer, columns_answer)
                               a3 == IF r.result.ok
                                     THEN r.app
                                     ELSE [r.app EXCEPT !.error_message =
                                             Some("Failed to load tables: " \o r.result.msg)]
                           IN St(cleared(a3), joined)
              [] result.kind = "Err" ->
                   St(cleared([taken EXCEPT
                                 !.error_message = Some("Connection failed: " \o result.msg),
                                 !.status_message = None,
                                 !.is_connecting = FALSE]),
                      joined)
              [] result.kind = "JoinError" ->
                   St(cleared([taken EXCEPT
                                 !.error_message =
                                   Some("Connection task panicked: " \o result.msg),
                                 !.status_message = None,
                                 !.is_connecting = FALSE]),
                      joined)
       ELSE St(taken, t)

\* check_connection_task whose Err branch leaves is_connecting set
check_connection_task_stays_connecting(a, t, tables_answer, columns_answer) ==
  IF is_none(a.connection_task)
  THEN St(a, t)
  ELSE
    LET id == unwrap(a.connection_task)
        taken == [a EXCEPT !.connection_task = None]
        joined == drop(t, id, "joined")
        result == t[id].result
        cleared(x) == [x EXCEPT !.connection_task = None, !.cancel_token = None]
    IN IF is_finished(t, id)
       THEN CASE result.kind = "Ok" ->
                   LET a1 == [taken EXCEPT
                                !.database_pool = Some(PoolOf(t, id)),
                                !.current_connection = Some(a.selected_connection_index),
                                !.current_screen = "TableBrowser"]
                   IN IF a.selected_connection_index >= Len(a.connections)
                      THEN Panic(a1, joined)
                      ELSE LET a2 == [a1 EXCEPT
                                        !.status_message = Some("Connected to " \o
                                           a.connections[a.selected_connection_index + 1].name),
                                        !.error_message = None,
                                        !.is_connecting = FALSE]
                               r == refresh_tables(a2, tables_answer, columns_answer)
                               a3 == IF r.result.ok
                                     THEN r.app
                                     ELSE [r.app EXCEPT !.error_message =
                                             Some("Failed to load tables: " \o r.result.msg)]
                           IN St(cleared(a3), joined)
              [] result.kind = "Err" ->
                   St(cleared([taken EXCEPT
                                 !.error_message = Some("Connection failed: " \o result.msg),
                                 !.status_message = None]),
                      joined)
              [] result.kind = "JoinError" ->
                   St(cleared([taken EXCEPT
                                 !.error_message =
                                   Some("Connection task panicked: " \o result.msg),
                                 !.status_message = None,
                                 !.is_connecting = FALSE]),
                      joined)
       ELSE St(a, t)

\* App::check_connection_task.  The index expression of the success branch
\* panics when selected_connection_index is outside the list.
check_connection_task(a, t, tables_answer, columns_answer) ==
  IF is_none(a.connection_task)
  THEN St(a, t)
  ELSE
    LET id == unwrap(a.connection_task)
        taken == [a EXCEPT !.connection_task = None]
        joined == drop(t, id, "joined")
        result == t[id].result
        cleared(x) == [x EXCEPT !.connection_task = None, !.cancel_token = None]
    IN IF is_finished(t, id)
       THEN CASE result.kind = "Ok" ->
                   LET a1 == [taken EXCEPT
                                !.database_pool = Some(PoolOf(t, id)),
                                !.current_connection = Some(a.selected_connection_index),
                                !.current_screen = "TableBrowser"]
                   IN IF a.selected_connection_index >= Len(a.connections)
                      THEN Panic(a1, joined)
                      ELSE LET a2 == [a1 EXCEPT
                                        !.status_message = Some("Connected to " \o
                                           a.connections[a.selected_connection_index + 1].name),
                                        !.error_message = None,
                                        !.is_connecting = FALSE]
                               r == refresh_tables(a2, tables_answer, columns_answer)
                               a3 == IF r.result.ok
                                     THEN r.app
                                     ELSE [r.app EXCEPT !.error_message =
                                             Some("Failed to load tables: " \o r.result.msg)]
                           IN St(cleared(a3), joined)
              [] result.kind = "Err" ->
                   St(cleared([taken EXCEPT
                                 !.error_message = Some("Connection failed: " \o result.msg),
                                 !.status_message = None,
                                 !.is_connecting = FALSE]),
                      joined)
              [] result.kind = "JoinError" ->
                   St(cleared([taken EXCEPT
                                 !.error_message =
                                   Some("Connection task panicked: " \o result.msg),
                                 !.status_message = None,
                                 !.is_connecting = FALSE]),
                      joined)
       ELSE St(a, t)

\* from_url that looks at the scheme name only
from_url_by_scheme_name(url) ==
  IF starts_with(url, <<"s","q","l","i","t","e",":">>) THEN Ok("SQLite")
  ELSE IF starts_with(url, <<"p","o","s","t","g","r","e","s",":">>) \/ starts_with(url, <<"p","o","s","t","g","r","e","s","q","l",":">>)
       THEN Ok("PostgreSQL")
  ELSE IF starts_with(url, <<"m","y","s","q","l",":">>) THEN Ok("MySQL")
  ELSE Err("Unsupported database URL format")

\* DatabaseType::from_url
from_url(url) ==
  IF starts_with(url, <<"s","q","l","i","t","e",":">>) THEN Ok("SQLite")
  ELSE IF starts_with(url, <<"p","o","s","t","g","r","e","s",":","/","/">>) \/ starts_with(url, <<"p","o","s","t","g","r","e","s","q","l",":","/","/">>)
       THEN Ok("PostgreSQL")
  ELSE IF starts_with(url, <<"m","y","s","q","l",":","/","/">>) THEN Ok("MySQL")
  ELSE Err("Unsupported database URL format")

\* ConnectionConfig::new
ConnectionConfig_new(name, connection_string) ==
  LET database_type == from_url(connection_string)
  IN IF database_type.ok
     THEN Ok([name |-> name,
              database_type |-> database_type.value,
              connection_string |-> connection_string,
              ssl_config |-> None])
     ELSE Err(database_type.msg)

\* App::add_connection
add_connection(a, name, connection_string) ==
  LET config == ConnectionConfig_new(name, connection_string)
  IN IF config.ok
     THEN [app |-> [a EXCEPT !.connections = Append(@, config.value)],
           result |-> Ok(<<>>)]
     ELSE [app |-> a, result |-> Err(config.msg)]

\* App::remove_connection
remove_connection(a, index) ==
  IF index < Len(a.connections)
  THEN LET removed == [a EXCEPT !.connections =
                         SubSeq(a.connections, 1, index)
                         \o SubSeq(a.connections, index + 2, Len(a.connections))]
       IN IF is_some(a.current_connection)
          THEN IF unwrap(a.current_connection) = index
               THEN [removed EXCEPT !.current_connection = None,
                                    !.database_pool = None,
                                    !.current_screen = "ConnectionList"]
               ELSE IF unwrap(a.current_connection) > index
                    THEN [removed EXCEPT !.current_connection =
                                           Some(unwrap(a.current_connection) - 1)]
                    ELSE removed
          ELSE removed
  ELSE a

\* App::next_connection
next_connection(a) ==
  IF Len(a.connections) > 0
  THEN [a EXCEPT !.selected_connection_index =
                   (a.selected_connection_index + 1) % Len(a.connections)]
  ELSE a

\* App::previous_connection
previous_connection(a) ==
  IF Len(a.connections) > 0
  THEN IF a.selected_connection_index = 0
       THEN [a EXCEPT !.selected_connection_index = Len(a.connections) - 1]
       ELSE [a EXCEPT !.selected_connection_index = a.selected_connection_index - 1]
  ELSE a

\* ----------------------------------------------------------- query results
\* A cell as the driver holds it: `ty` is the first typed read of the
\* fallback chain that succeeds (String, i64, f64, bool, DateTime<Utc>) or
\* "none" when every read fails.  An f64 is given in tenths.
TextCell(s) == [ty |-> "String", text |-> s, int |-> 0, flag |-> FALSE, date |-> <<>>]
IntCell(n) == [ty |-> "i64", text |-> <<>>, int |-> n, flag |-> FALSE, date |-> <<>>]
FloatCell(tenths) == [ty |-> "f64", text |-> <<>>, int |-> tenths, flag |-> FALSE, date |-> <<>>]
BoolCell(b) == [ty |-> "bool", text |-> <<>>, int |-> 0, flag |-> b, date |-> <<>>]
DateCell(d) == [ty |-> "DateTime", text |-> <<>>, int |-> 0, flag |-> FALSE, date |-> d]
NullCell == [ty |-> "none", text |-> <<>>, int |-> 0, flag |-> FALSE, date |-> <<>>]

f64_to_string(tenths) ==
  LET m == IF tenths < 0 THEN 0 - tenths ELSE tenths
      sign == IF tenths < 0 THEN <<"-">> ELSE <<>>
  IN IF m % 10 = 0
     THEN sign \o usize_to_string(m \div 10)
     ELSE sign \o usize_to_string(m \div 10) \o <<".">> \o usize_to_string(m % 10)

pad2(n) == IF n < 10 THEN <<"0">> \o usize_to_string(n) ELSE usize_to_string(n)

\* format("%Y-%m-%d %H:%M:%S") of <<year, month, day, hour, minute, second>>
format_datetime(d) ==
  LET pad4(n) == IF n < 10 THEN <<"0","0","0">> \o usize_to_string(n)
                 ELSE IF n < 100 THEN <<"0","0">> \o usize_to_string(n)
                 ELSE IF n < 1000 THEN <<"0">> \o usize_to_string(n)
                 ELSE usize_to_string(n)
  IN pad4(d[1]) \o <<"-">> \o pad2(d[2]) \o <<"-">> \o pad2(d[3])
     \o <<" ">> \o pad2(d[4]) \o <<":">> \o pad2(d[5])
     \o <<":">> \o pad2(d[6])

\* The fallback chain of DatabasePool::execute_query for one cell
cell_to_string(cell) ==
  CASE cell.ty = "String" -> cell.text
    [] cell.ty = "i64" -> i64_to_string(cell.int)
    [] cell.ty = "f64" -> f64_to_string(cell.int)
    [] cell.ty = "bool" -> IF cell.flag THEN <<"t","r","u","e">> ELSE <<"f","a","l","s","e">>
    [] cell.ty = "DateTime" -> format_datetime(cell.date)
    [] OTHER -> <<"N","U","L","L">>

\* Row::try_get chain at index i of a driver row: every typed read of an
\* index the row does not have fails
row_value(row, i) == IF i <= Len(row) THEN cell_to_string(row[i]) ELSE <<"N","U","L","L">>

\* pool_execute_query that reads each driver row by its own cells
pool_execute_query_by_row_cells(answer) ==
  IF ~answer.ok
  THEN Err(answer.msg)
  ELSE IF Len(answer.value.rows) = 0
       THEN Ok([columns |-> <<>>, rows |-> <<>>,
                affected_rows |-> Some(0), total_count |-> Some(0)])
       ELSE Ok([columns |-> answer.value.columns,
                rows |-> [r \in 1..Len(answer.value.rows) |->
                           [i \in 1..Len(answer.value.rows[r]) |->
                              row_value(answer.value.rows[r], i)]],
                affected_rows |-> None,
                total_count |-> None])

\* DatabasePool::execute_query applied to what fetch_all answers: an error,
\* or the rows with the column names of the first row.  The rows of one
\* answer need not have the same number of cells (a text of several
\* statements).
pool_execute_query(answer) ==
  IF ~answer.ok
  THEN Err(answer.msg)
  ELSE IF Len(answer.value.rows) = 0
       THEN Ok([columns |-> <<>>, rows |-> <<>>,
                affected_rows |-> Some(0), total_count |-> Some(0)])
       ELSE Ok([columns |-> answer.value.columns,
                rows |-> [r \in 1..Len(answer.value.rows) |->
                           [i \in 1..Len(answer.value.columns) |->
                              row_value(answer.value.rows[r], i)]],
                affected_rows |-> None,
                total_count |-> None])

\* ---------------------------------------------------------- query executor
Value(s) == [panic |-> FALSE, value |-> s]
SlicePanic == [panic |-> TRUE, value |-> <<>>]

\* generate_count_query that keeps the trailing semicolon
generate_count_query_keeps_terminator(a, query) ==
  LET query_upper == to_uppercase(trim(query))
      limit_pos == rfind(query_upper, <<"L","I","M","I","T">>)
      query_without_limit == IF is_some(limit_pos)
                             THEN trim(Slice(query, 0, unwrap(limit_pos)))
                             ELSE trim(query)
      query_clean == query_without_limit
      from_pos == find(query_upper, <<"F","R","O","M">>)
  IN IF is_some(from_pos)
     THEN IF unwrap(from_pos) > Len(query_clean)
          THEN SlicePanic
          ELSE Value(<<"S","E","L","E","C","T"," ","C","O","U","N","T","(","*",")"," ">>
                     \o Slice(query_clean, unwrap(from_pos), Len(query_clean)))
     ELSE Value(<<"S","E","L","E","C","T"," ","C","O","U","N","T","(","*",")"," ","F","R","O","M"," ","(">> \o query_clean \o <<")">>)

\* App::generate_count_query.  limit_pos and from_pos are positions in the
\* trimmed upper-cased text; they are applied to `query` and to query_clean.
\* A slice that starts after the end of the text panics.
generate_count_query(a, query) ==
  LET query_upper == to_uppercase(trim(query))
      limit_pos == rfind(query_upper, <<"L","I","M","I","T">>)
      query_without_limit == IF is_some(limit_pos)
                             THEN trim(Slice(query, 0, unwrap(limit_pos)))
                             ELSE trim(query)
      query_clean == trim_end_matches(query_without_limit, ";")
      from_pos == find(query_upper, <<"F","R","O","M">>)
  IN IF is_some(from_pos)
     THEN IF unwrap(from_pos) > Len(query_clean)
          THEN SlicePanic
          ELSE Value(<<"S","E","L","E","C","T"," ","C","O","U","N","T","(","*",")"," ">>
                     \o Slice(query_clean, unwrap(from_pos), Len(query_clean)))
     ELSE Value(<<"S","E","L","E","C","T"," ","C","O","U","N","T","(","*",")"," ","F","R","O","M"," ","(">> \o query_clean \o <<")">>)

\* auto_limit_query that does not look for LIMIT
auto_limit_query_always_appends(a, query) ==
  LET query_upper == to_uppercase(query)
  IN IF contains(query_upper, <<"S","E","L","E","C","T">>)
     THEN trim_end_matches(query, ";") \o <<" ","L","I","M","I","T"," ">> \o usize_to_string(a.results_per_page)
     ELSE query

\* App::auto_limit_query
auto_limit_query(a, query) ==
  LET query_upper == to_uppercase(query)
  IN IF ~contains(query_upper, <<"L","I","M","I","T">>) /\ contains(query_upper, <<"S","E","L","E","C","T">>)
     THEN trim_end_matches(query, ";") \o <<" ","L","I","M","I","T"," ">> \o usize_to_string(a.results_per_page)
     ELSE query

\* The classification of App::execute_query
is_select(query) == starts_with(to_uppercase(trim(query)), <<"S","E","L","E","C","T">>)

\* count_of that falls back to the number of rows of the answer
count_of_falls_back_to_rows(count_result) ==
  IF count_result.ok
  THEN IF Len(count_result.value.rows) > 0
       THEN LET first_row == count_result.value.rows[1]
            IN IF Len(first_row) > 0 /\ is_some(parse_usize(first_row[1]))
               THEN unwrap(parse_usize(first_row[1]))
               ELSE Len(count_result.value.rows)
       ELSE 0
  ELSE 0

\* The total count read from the answer to the count statement
count_of(count_result) ==
  IF count_result.ok
  THEN IF Len(count_result.value.rows) > 0
       THEN LET first_row == count_result.value.rows[1]
            IN IF Len(first_row) > 0 /\ is_some(parse_usize(first_row[1]))
               THEN unwrap(parse_usize(first_row[1]))
               ELSE 0
       ELSE 0
  ELSE 0

history_push(history, query) ==
  IF \E i \in 1..Len(history) : history[i] = query
  THEN history
  ELSE LET pushed == Append(history, query)
       IN IF Len(pushed) > HistoryCap THEN Tail(pushed) ELSE pushed

\* App::execute_query up to the point where the main statement is sent:
\* the classification, the count statement and the statement with its LIMIT.
query_plan(a, query) ==
  [is_select |-> is_select(query),
   count_query |-> IF is_select(query) THEN generate_count_query(a, query) ELSE Value(<<>>),
   modified_query |-> auto_limit_query(a, query)]

Sent(step, sql, answer) == [step |-> step, sql |-> sql, answer |-> answer]
NoCall == [query |-> <<>>, sent |-> <<>>]

\* execute_query that forgets the stored result when the main statement fails
execute_query_drops_result(a, query, plan, count_answer, main_answer) ==
  IF is_none(a.database_pool)
  THEN [app |-> a, log |-> [query |-> query, sent |-> <<>>], panic |-> FALSE,
        result |-> Err("No database connection")]
  ELSE
    LET a1 == [a EXCEPT !.status_message = Some("Executing query...")]
        total_count == IF plan.is_select
                       THEN count_of(pool_execute_query(count_answer))
                       ELSE 0
        count_log == IF plan.is_select
                     THEN <<Sent("count", plan.count_query.value, count_answer)>>
                     ELSE <<>>
        log == [query |-> query,
                sent |-> Append(count_log, Sent("main", plan.modified_query, main_answer))]
        main_result == pool_execute_query(main_answer)
    IN IF plan.count_query.panic
       THEN [app |-> a1, log |-> [query |-> query, sent |-> <<>>], panic |-> TRUE,
             result |-> Err("")]
       ELSE IF main_result.ok
            THEN [app |-> [a1 EXCEPT
                     !.current_query_result =
                        Some([main_result.value EXCEPT !.total_count = Some(total_count)]),
                     !.current_screen = "QueryResults",
                     !.result_scroll_x = 0,
                     !.result_scroll_y = 0,
                     !.selected_column_index = 0,
                     !.selected_row_index = 0,
                     !.current_page = 0,
                     !.status_message = Some("Query executed successfully"),
                     !.error_message = None,
                     !.query_history = history_push(a.query_history, query)],
                  log |-> log,
                  panic |-> FALSE,
                  result |-> Ok(<<>>)]
            ELSE [app |-> [a1 EXCEPT
                     !.current_query_result = None,
                     !.error_message = Some("Query failed: " \o main_result.msg),
                     !.status_message = None],
                  log |-> log,
                  panic |-> FALSE,
                  result |-> Err(main_result.msg)]

\* App::execute_query, with the answers of the backend to the count
\* statement and to the main statement.  `log` is the exchange with
\* DatabasePool::execute_query during the call: the text given to the call
\* and, in order, each statement sent with the answer it got.  `result` is
\* the value the call returns (none when it panics).
execute_query(a, query, plan, count_answer, main_answer) ==
  IF is_none(a.database_pool)
  THEN [app |-> a, log |-> [query |-> query, sent |-> <<>>], panic |-> FALSE,
        result |-> Err("No database connection")]
  ELSE
    LET a1 == [a EXCEPT !.status_message = Some("Executing query...")]
        total_count == IF plan.is_select
                       THEN count_of(pool_execute_query(count_answer))
                       ELSE 0
        count_log == IF plan.is_select
                     THEN <<Sent("count", plan.count_query.value, count_answer)>>
                     ELSE <<>>
        log == [query |-> query,
                sent |-> Append(count_log, Sent("main", plan.modified_query, main_answer))]
        main_result == pool_execute_query(main_answer)
    IN IF plan.count_query.panic
       THEN [app |-> a1, log |-> [query |-> query, sent |-> <<>>], panic |-> TRUE,
             result |-> Err("")]
       ELSE IF main_result.ok
            THEN [app |-> [a1 EXCEPT
                     !.current_query_result =
                        Some([main_result.value EXCEPT !.total_count = Some(total_count)]),
                     !.current_screen = "QueryResults",
                     !.result_scroll_x = 0,
                     !.result_scroll_y = 0,
                     !.selected_column_index = 0,
                     !.selected_row_index = 0,
                     !.current_page = 0,
                     !.status_message = Some("Query executed successfully"),
                     !.error_message = None,
                     !.query_history = history_push(a.query_history, query)],
                  log |-> log,
                  panic |-> FALSE,
                  result |-> Ok(<<>>)]
            ELSE [app |-> [a1 EXCEPT
                     !.error_message = Some("Query failed: " \o main_result.msg),
                     !.status_message = None],
                  log |-> log,
                  panic |-> FALSE,
                  result |-> Err(main_result.msg)]

\* ------------------------------------------------------------------ paging
Min(x, y) == IF x < y THEN x ELSE y
saturating_sub(x, y) == IF x < y THEN 0 ELSE x - y

\* get_current_page_results that starts one row late
get_current_page_results_from_next_row(a) ==
  IF is_some(a.current_query_result)
  THEN LET result == unwrap(a.current_query_result)
           start == a.current_page * a.results_per_page + 1
           end == Min(start + a.results_per_page, Len(result.rows))
       IN IF start < Len(result.rows) THEN Slice(result.rows, start, end) ELSE <<>>
  ELSE <<>>

\* get_current_page_results whose pages overlap by one row
get_current_page_results_overlapping(a) ==
  IF is_some(a.current_query_result)
  THEN LET result == unwrap(a.current_query_result)
           start == a.current_page * (a.results_per_page - 1)
           end == Min(start + a.results_per_page, Len(result.rows))
       IN IF start < Len(result.rows) THEN Slice(result.rows, start, end) ELSE <<>>
  ELSE <<>>

\* App::get_current_page_results
get_current_page_results(a) ==
  IF is_some(a.current_query_result)
  THEN LET result == unwrap(a.current_query_result)
           start == a.current_page * a.results_per_page
           end == Min(start + a.results_per_page, Len(result.rows))
       IN IF start < Len(result.rows) THEN Slice(result.rows, start, end) ELSE <<>>
  ELSE <<>>

\* Option::unwrap_or
unwrap_or(o, default) == IF is_some(o) THEN unwrap(o) ELSE default

\* get_total_pages that rounds down
get_total_pages_rounds_down(a) ==
  IF is_some(a.current_query_result)
  THEN LET result == unwrap(a.current_query_result)
           total_rows == unwrap_or(result.total_count, Len(result.rows))
       IN IF total_rows = 0
          THEN 0
          ELSE total_rows \div a.results_per_page
  ELSE 0

\* App::get_total_pages
get_total_pages(a) ==
  IF is_some(a.current_query_result)
  THEN LET result == unwrap(a.current_query_result)
           total_rows == unwrap_or(result.total_count, Len(result.rows))
       IN IF total_rows = 0
          THEN 0
          ELSE (total_rows + a.results_per_page - 1) \div a.results_per_page
  ELSE 0

\* App::next_page
next_page(a) ==
  IF a.current_page < saturating_sub(get_total_pages(a), 1)
  THEN [a EXCEPT !.current_page = @ + 1,
                 !.result_scroll_y = 0,
                 !.selected_row_index = 0]
  ELSE a

\* App::previous_page
previous_page(a) ==
  IF a.current_page > 0
  THEN [a EXCEPT !.current_page = @ - 1,
                 !.result_scroll_y = 0,
                 !.selected_row_index = 0]
  ELSE a

\* handle_key_event on the QueryResults screen, KeyCode::Home
home_key(a) ==
  [a EXCEPT !.result_scroll_x = 0,
            !.result_scroll_y = 0,
            !.selected_column_index = 0,
            !.selected_row_index = 0,
            !.current_page = 0]

\* handle_key_event on the QueryResults screen, KeyCode::End
end_key(a) ==
  IF is_some(a.current_query_result)
  THEN LET result == unwrap(a.current_query_result)
           a1 == [a EXCEPT !.selected_column_index = saturating_sub(Len(result.columns), 1),
                           !.current_page = saturating_sub(get_total_pages(a), 1)]
           current_results == get_current_page_results(a1)
       IN [a1 EXCEPT !.selected_row_index = saturating_sub(Len(current_results), 1),
                     !.result_scroll_y = saturating_sub(Len(current_results), 1)]
  ELSE a

\* ------------------------------------------------------------------ inputs
Queries == { <<"S","E","L","E","C","T"," ","1">>,
             <<"s","e","l","e","c","t"," ","*"," ","f","r","o","m"," ","t",";">>,
             <<" "," ","S","E","L","E","C","T"," ","a"," ","F","R","O","M"," ","t"," ","L","I","M","I","T"," ","5">>,
             <<"I","N","S","E","R","T"," ","I","N","T","O"," ","t"," ","S","E","L","E","C","T"," ","*"," ","F","R","O","M"," ","u">>,
             <<"D","E","L","E","T","E"," ","F","R","O","M"," ","t",";">>,
             <<"S","E","L","E","C","T"," ","l","i","m","i","t","_","x"," ","F","R","O","M"," ","t">> }

RowSet(columns, rows) == Ok([columns |-> columns, rows |-> rows])

CountAnswers == {Err(e) : e \in QueryErrors}
                \cup { RowSet(<<"COUNT(*)">>, <<>>),
                       RowSet(<<>>, << <<>> >>),
                       RowSet(<<"COUNT(*)">>, << <<IntCell(3)>> >>),
                       RowSet(<<"COUNT(*)">>, << <<IntCell(0 - 1)>> >>),
                       RowSet(<<"COUNT(*)">>, << <<TextCell(<<"+","2">>)>> >>),
                       RowSet(<<"COUNT(*)">>, << <<FloatCell(15)>> >>),
                       RowSet(<<"COUNT(*)">>, << <<NullCell>> >>) }

MainAnswers == {Err(e) : e \in QueryErrors}
               \cup { RowSet(<<"1">>, <<>>),
                      RowSet(<<"1">>, << <<IntCell(1)>> >>),
                      RowSet(<<"a", "b">>, << <<TextCell(<<"x">>), BoolCell(TRUE)>>,
                                              <<DateCell(<<2024, 1, 31, 9, 5, 0>>), NullCell>>,
                                              <<FloatCell(25)>>,
                                              <<IntCell(7), IntCell(8), IntCell(9)>> >>) }

\* ----------------------------------------------------------------- actions
Init ==
  /\ app = new_app(SubSeq(default_connections, 1, NumConnections))
  /\ tasks = <<>>
  /\ backend_log = NoCall
  /\ panicked = FALSE

Apply(st) ==
  /\ app' = st.app
  /\ tasks' = st.tasks
  /\ panicked' = st.panic
  /\ UNCHANGED backend_log

StartConnection ==
  /\ ~panicked
  /\ Len(tasks) < MaxAttempts
  /\ \E connection_index \in 0..NumConnections :
       Apply(start_connection(app, tasks, connection_index))

CancelConnection ==
  /\ ~panicked
  /\ Apply(cancel_connection(app, tasks))

\* What the backend answers to the calls of one poll: get_tables is called
\* when the task handed over a pool and the status line was written, and
\* get_table_columns when the listing has a table.
NotAsked == Err("")
AsksBackend(a, t) ==
  /\ is_some(a.connection_task)
  /\ is_finished(t, unwrap(a.connection_task))
  /\ t[unwrap(a.connection_task)].result.kind = "Ok"
  /\ a.selected_connection_index < Len(a.connections)
BackendAnswers(a, t) ==
  IF AsksBackend(a, t)
  THEN UNION {{[tables |-> ta, columns |-> ca] :
                 ca \in IF ta.ok /\ Len(ta.value) > 0
                        THEN GetTableColumnsAnswers ELSE {NotAsked}} :
              ta \in GetTablesAnswers}
  ELSE {[tables |-> NotAsked, columns |-> NotAsked]}

CheckConnectionTask ==
  /\ ~panicked
  /\ \E answers \in BackendAnswers(app, tasks) :
       Apply(check_connection_task(app, tasks, answers.tables, answers.columns))

RemoveConnection ==
  /\ ~panicked
  /\ \E index \in 0..NumConnections : app' = remove_connection(app, index)
  /\ UNCHANGED <<tasks, backend_log, panicked>>

NextConnection ==
  /\ ~panicked
  /\ app' = next_connection(app)
  /\ UNCHANGED <<tasks, backend_log, panicked>>

PreviousConnection ==
  /\ ~panicked
  /\ app' = previous_connection(app)
  /\ UNCHANGED <<tasks, backend_log, panicked>>

\* The statements of the model with their plans.  A plan reads
\* results_per_page and no other field of App, so the plans at the page size
\* of App::new are computed once.
PlansOfNewApp == {[query |-> q, plan |-> query_plan(new_app(<<>>), q)] : q \in Queries}
Plans(a) == IF a.results_per_page = DefaultResultsPerPage
            THEN PlansOfNewApp
            ELSE {[query |-> q, plan |-> query_plan(a, q)] : q \in Queries}

\* A statement is executed on the installed handle.  The history holds at
\* most MaxHistory statements: once it is full, only statements it holds are
\* executed again.
ExecuteQuery ==
  /\ ~panicked
  /\ is_some(app.database_pool)
  /\ \E planned \in {p \in Plans(app) :
                       \/ Len(app.query_history) < MaxHistory
                       \/ \E i \in 1..Len(app.query_history) :
                            app.query_history[i] = p.query} :
     \E count_answer \in IF planned.plan.is_select /\ ~planned.plan.count_query.panic
                         THEN CountAnswers ELSE {NotAsked},
        main_answer \in IF planned.plan.count_query.panic
                        THEN {NotAsked} ELSE MainAnswers :
       LET r == execute_query(app, planned.query, planned.plan, count_answer, main_answer)
       IN /\ app' = r.app
          /\ backend_log' = r.log
          /\ panicked' = r.panic
  /\ UNCHANGED tasks

\* The running task: DatabasePool::connect returns
ConnectReturns ==
  /\ ~panicked
  /\ \E id \in 1..Len(tasks), race \in ConnectRaces :
       /\ tasks[id].status = "running"
       /\ tasks' = [tasks EXCEPT ![id].status = "finished",
                                 ![id].elapsed = 0,
                                 ![id].race = race.kind,
                                 ![id].result = perform_connection(race)]
  /\ UNCHANGED <<app, backend_log, panicked>>

\* Time passes on the timer of the running task, ClockStep seconds at a time
TimePasses ==
  /\ ~panicked
  /\ \E id \in 1..Len(tasks) :
       /\ tasks[id].status = "running"
       /\ tasks[id].elapsed < timeout_duration
       /\ tasks' = [tasks EXCEPT ![id].elapsed =
                                    IF @ + ClockStep > timeout_duration
                                    THEN timeout_duration
                                    ELSE @ + ClockStep]
  /\ UNCHANGED <<app, backend_log, panicked>>

\* tokio::time::timeout fires
TimeoutElapses ==
  /\ ~panicked
  /\ \E id \in 1..Len(tasks) :
       /\ tasks[id].status = "running"
       /\ tasks[id].elapsed = timeout_duration
       /\ tasks' = [tasks EXCEPT ![id].status = "finished",
                                 ![id].elapsed = 0,
                                 ![id].race = "elapsed",
                                 ![id].result =
                                    perform_connection([kind |-> "elapsed", msg |-> ""])]
  /\ UNCHANGED <<app, backend_log, panicked>>

\* The task itself panics inside the driver
TaskPanics ==
  /\ ~panicked
  /\ \E id \in 1..Len(tasks) :
       /\ tasks[id].status = "running"
       /\ tasks' = [tasks EXCEPT ![id].status = "finished",
                                 ![id].elapsed = 0,
                                 ![id].race = "panicked",
                                 ![id].result = JoinError("task panicked")]
  /\ UNCHANGED <<app, backend_log, panicked>>

\* The connection lifecycle: every operation on the connection list and on
\* the in-flight attempt, and every step of the background task.
Next ==
  \/ StartConnection
  \/ CancelConnection
  \/ CheckConnectionTask
  \/ RemoveConnection
  \/ NextConnection
  \/ PreviousConnection
  \/ ConnectReturns
  \/ TimePasses
  \/ TimeoutElapses
  \/ TaskPanics

Spec == Init /\ [][Next]_vars

\* The query executor: one attempt that runs to its end, and queries on the
\* handle it installs.
QueryNext ==
  \/ (Len(tasks) = 0 /\ StartConnection)
  \/ ConnectReturns
  \/ (CheckConnectionTask /\ Len(app'.tables) = 0)
  \/ ExecuteQuery

QuerySpec == Init /\ [][QueryNext]_vars

\* The attempt under the foreground loop: every operation and every task
\* step that reads or writes the attempt, is_connecting or the list the poll
\* indexes.  next_connection and previous_connection only move the selection;
\* RemoveConnection already takes the selection outside the list.
LiveNext ==
  \/ StartConnection
  \/ CancelConnection
  \/ CheckConnectionTask
  \/ RemoveConnection
  \/ ConnectReturns
  \/ TimePasses
  \/ TimeoutElapses
  \/ TaskPanics

\* The foreground loop keeps ticking (run_app calls check_connection_task
\* every tick) and the runtime keeps the timer of the task running.
LiveSpec == /\ Init /\ [][LiveNext]_vars
            /\ WF_vars(CheckConnectionTask)
            /\ WF_vars(TimePasses)
            /\ WF_vars(TimeoutElapses)

\* ------------------------------------------------------- statement rewriting
\* Statements of the form SELECT <cols> FROM <rest> [LIMIT <n>][;], by parts
SelectForms ==
  [select : {<<"S","E","L","E","C","T">>, <<"s","e","l","e","c","t">>},
   cols : {<<"*">>, <<"a",","," ","b">>},
   from : {<<"F","R","O","M">>, <<"F","r","o","m">>},
   rest : {<<"t">>, <<"t"," ","W","H","E","R","E"," ","x","=","1">>},
   limit : {<<>>, <<"L","I","M","I","T"," ","1","0">>, <<"l","i","m","i","t"," ","5">>},
   term : {<<>>, <<";">>}]

\* Statements without FROM: [whitespace] <body> [LIMIT <n>][;]
NoFromForms ==
  [prefix : {<<>>, <<" "," ">>},
   body : {<<"S","E","L","E","C","T"," ","1">>, <<"s","e","l","e","c","t"," ","1","+","1">>},
   limit : {<<>>, <<"L","I","M","I","T"," ","3">>},
   term : {<<>>, <<";">>}]

Clause(limit) == IF Len(limit) = 0 THEN <<>> ELSE <<" ">> \o limit

SelectStatement(f) ==
  f.select \o <<" ">> \o f.cols \o <<" ">> \o f.from \o <<" ">> \o f.rest
  \o Clause(f.limit) \o f.term

NoFromStatement(f) == f.prefix \o f.body \o Clause(f.limit) \o f.term

OtherStatements == { <<"s","e","l","e","c","t"," ","*"," ","f","r","o","m"," ","t",";"," ">>,
                     <<"S","E","L","E","C","T"," ","1",";",";">>,
                     <<" "," ","S","E","L","E","C","T"," ","a"," ","F","R","O","M"," ","t"," ","L","I","M","I","T"," ","5">>,
                     <<"I","N","S","E","R","T"," ","I","N","T","O"," ","t"," ","S","E","L","E","C","T"," ","*"," ","F","R","O","M"," ","u">>,
                     <<"D","E","L","E","T","E"," ","F","R","O","M"," ","t",";">>,
                     <<"U","P","D","A","T","E"," ","t"," ","S","E","T"," ","a","=","1",";",";">>,
                     <<"S","E","L","E","C","T"," ","l","i","m","i","t","_","x"," ","F","R","O","M"," ","t">>,
                     <<>> }

Statements == {SelectStatement(f) : f \in SelectForms}
              \cup {NoFromStatement(f) : f \in NoFromForms}
              \cup OtherStatements

\* How many times auto_limit_query is applied in a row
MaxApplications == 2

IsCount(e) == e.step = "count"
IsMain(e) == e.step = "main"
Counts == SelectSeq(backend_log.sent, IsCount)
Mains == SelectSeq(backend_log.sent, IsMain)

\* A statement is given; what is derived from it is kept in backend_log.sent
\* (nothing is sent to a backend).
TextInit ==
  /\ app = new_app(SubSeq(default_connections, 1, NumConnections))
  /\ tasks = <<>>
  /\ panicked = FALSE
  /\ \E q \in Statements : backend_log = [query |-> q, sent |-> <<>>]

GenerateCountQuery ==
  /\ ~panicked
  /\ Len(Counts) = 0
  /\ LET r == generate_count_query(app, backend_log.query)
     IN /\ panicked' = r.panic
        /\ backend_log' = IF r.panic
                          THEN backend_log
                          ELSE [backend_log EXCEPT
                                  !.sent = Append(@, Sent("count", r.value, NotAsked))]
  /\ UNCHANGED <<app, tasks>>

\* auto_limit_query applied to the statement, then to what it returned
AutoLimitQuery ==
  /\ ~panicked
  /\ Len(Mains) < MaxApplications
  /\ LET query == IF Len(Mains) = 0 THEN backend_log.query ELSE Mains[Len(Mains)].sql
     IN backend_log' = [backend_log EXCEPT
                          !.sent = Append(@, Sent("main", auto_limit_query(app, query),
                                                  NotAsked))]
  /\ UNCHANGED <<app, tasks, panicked>>

TextNext ==
  \/ GenerateCountQuery
  \/ AutoLimitQuery

TextSpec == TextInit /\ [][TextNext]_vars

\* ------------------------------------------------------------ result pages
\* The longest result
MaxRows == 101

RowCounts == {0, 1, DefaultResultsPerPage - 1, DefaultResultsPerPage,
              DefaultResultsPerPage + 1, 2 * DefaultResultsPerPage, MaxRows}

\* A result of n rows, row i holding the text of i, and the count attached
\* to it: none (as DatabasePool::execute_query returns it) or a number
NumberedRows(n) == [i \in 1..n |-> <<usize_to_string(i)>>]

StoredResults ==
  [columns : {<<"n">>},
   rows : {NumberedRows(n) : n \in RowCounts},
   affected_rows : {None},
   total_count : {None} \cup {Some(c) : c \in RowCounts \cup {MaxRows + DefaultResultsPerPage}}]

\* A result is on display, or none is
PageInit ==
  /\ \E stored \in {None} \cup {Some(r) : r \in StoredResults} :
       app = [new_app(SubSeq(default_connections, 1, NumConnections)) EXCEPT
                !.current_query_result = stored,
                !.current_screen = IF is_some(stored) THEN "QueryResults" ELSE @]
  /\ tasks = <<>>
  /\ backend_log = NoCall
  /\ panicked = FALSE

NextPage ==
  /\ app' = next_page(app)
  /\ UNCHANGED <<tasks, backend_log, panicked>>

PreviousPage ==
  /\ app' = previous_page(app)
  /\ UNCHANGED <<tasks, backend_log, panicked>>

HomeKey ==
  /\ app' = home_key(app)
  /\ UNCHANGED <<tasks, backend_log, panicked>>

EndKey ==
  /\ app' = end_key(app)
  /\ UNCHANGED <<tasks, backend_log, panicked>>

PageNext ==
  \/ NextPage
  \/ PreviousPage
  \/ HomeKey
  \/ EndKey

PageSpec == PageInit /\ [][PageNext]_vars

\* ------------------------------------------------------ the connection list
\* How many descriptors are added to the list
MaxAdded == 1

Names == {"Demo SQLite Database"}

Urls == { <<"s","q","l","i","t","e",":","d","e","m","o",".","d","b">>,
          <<"p","o","s","t","g","r","e","s",":","/","/","h","/","d">>,
          <<"p","o","s","t","g","r","e","s","q","l",":","/","/","h","/","d">>,
          <<"m","y","s","q","l",":","/","/","h","/","d">>,
          <<"m","y","s","q","l",":","h">>,
          <<"p","o","s","t","g","r","e","s",":","/","h">>,
          <<"S","Q","L","I","T","E",":","d","e","m","o",".","d","b">>,
          <<" ","s","q","l","i","t","e",":","d","e","m","o",".","d","b">>,
          <<"h","t","t","p",":","/","/","h","/","d">>,
          <<>> }

AddConnection ==
  /\ ~panicked
  /\ Len(app.connections) < NumConnections + MaxAdded
  /\ \E name \in Names, connection_string \in Urls :
       app' = add_connection(app, name, connection_string).app
  /\ UNCHANGED <<tasks, backend_log, panicked>>

ListNext ==
  \/ AddConnection
  \/ RemoveConnection
  \/ NextConnection
  \/ PreviousConnection

ListSpec == Init /\ [][ListNext]_vars

\* ------------------------------------------------------- the table listing
\* Rows of the catalogue query of an engine (schemaname is read by the
\* PostgreSQL branch only) and what a count statement is answered
CatalogueRow(schema, name) == [schemaname |-> schema, tablename |-> name]

Catalogues == { <<>>,
                <<CatalogueRow(<<"m","a","i","n">>, <<"u","s","e","r","s">>)>>,
                <<CatalogueRow(<<"m","a","i","n">>, <<"o","r","d","e","r","s">>), CatalogueRow(<<"m","a","i","n">>, <<"u","s","e","r","s">>)>> }

CatalogueAnswers == {Ok(c) : c \in Catalogues} \cup {Err(e) : e \in QueryErrors}

TableCountAnswers == {Ok(0), Ok(2)} \cup {Err(e) : e \in QueryErrors}

\* The answers to the count statements of a listing, one per catalogue row
CountAnswersFor(catalogue_answer) ==
  IF catalogue_answer.ok
  THEN [1..Len(catalogue_answer.value) -> TableCountAnswers]
  ELSE {<<>>}

\* The character U+0060, which quotes a MySQL identifier
backtick == "U+0060"

catalogue_query(database_type) ==
  CASE database_type = "SQLite" ->
         <<"S","E","L","E","C","T"," ","n","a","m","e"," ","F","R","O","M"," ","s","q","l","i","t","e","_","m","a","s","t","e","r"," ","W","H","E","R","E"," ","t","y","p","e","=","'","t","a","b","l","e","'"," ","O","R","D","E","R"," ","B","Y"," ","n","a","m","e">>
    [] database_type = "PostgreSQL" ->
         <<"S","E","L","E","C","T"," ","s","c","h","e","m","a","n","a","m","e",","," ","t","a","b","l","e","n","a","m","e"," ","F","R","O","M"," ","p","g","_","t","a","b","l","e","s"," ","W","H","E","R","E"," ","s","c","h","e","m","a","n","a","m","e"," ","N","O","T"," ","I","N"," ","(","'","i","n","f","o","r","m","a","t","i","o","n","_","s","c","h","e","m","a","'",","," ","'","p","g","_","c","a","t","a","l","o","g","'",")"," ","O","R","D","E","R"," ","B","Y"," ","s","c","h","e","m","a","n","a","m","e",","," ","t","a","b","l","e","n","a","m","e">>
    [] database_type = "MySQL" -> <<"S","H","O","W"," ","T","A","B","L","E","S">>

table_count_query(database_type, row) ==
  CASE database_type = "SQLite" ->
         <<"S","E","L","E","C","T"," ","C","O","U","N","T","(","*",")"," ","a","s"," ","c","o","u","n","t"," ","F","R","O","M"," ","'">> \o row.tablename \o <<"'">>
    [] database_type = "PostgreSQL" ->
         <<"S","E","L","E","C","T"," ","C","O","U","N","T","(","*",")"," ","a","s"," ","c","o","u","n","t"," ","F","R","O","M"," ","\"">> \o row.schemaname \o <<"\"",".","\"">>
           \o row.tablename \o <<"\"">>
    [] database_type = "MySQL" ->
         <<"S","E","L","E","C","T"," ","C","O","U","N","T","(","*",")"," ","a","s"," ","c","o","u","n","t"," ","F","R","O","M"," ">> \o <<backtick>> \o row.tablename
           \o <<backtick>>

TableInfo(database_type, row, row_count) ==
  [name |-> row.tablename,
   schema |-> IF database_type = "PostgreSQL" THEN Some(row.schemaname) ELSE None,
   row_count |-> row_count]

\* DatabasePool::get_tables, with the answer to the catalogue query and the
\* answers to the count statements.  `sent` is the exchange with the engine,
\* in order.  The SQLite branch propagates the failure of a count statement
\* with `?` and stops at it; the PostgreSQL and MySQL branches turn it into
\* row_count = None and go on.
get_tables(database_type, catalogue_answer, count_answers) ==
  LET listing == Sent("tables", catalogue_query(database_type), catalogue_answer)
      rows == catalogue_answer.value
      counted(i) == Sent("count", table_count_query(database_type, rows[i]),
                         count_answers[i])
      failed == {i \in 1..Len(rows) : ~count_answers[i].ok}
  IN IF ~catalogue_answer.ok
     THEN [result |-> Err(catalogue_answer.msg), sent |-> <<listing>>]
     ELSE IF database_type = "SQLite"
          THEN IF failed # {}
               THEN LET first == CHOOSE i \in failed : \A j \in failed : i <= j
                    IN [result |-> Err(count_answers[first].msg),
                        sent |-> <<listing>> \o [i \in 1..first |-> counted(i)]]
               ELSE [result |-> Ok([i \in 1..Len(rows) |->
                                      TableInfo(database_type, rows[i],
                                                Some(count_answers[i].value))]),
                     sent |-> <<listing>> \o [i \in 1..Len(rows) |-> counted(i)]]
          ELSE [result |-> Ok([i \in 1..Len(rows) |->
                                 TableInfo(database_type, rows[i],
                                           IF count_answers[i].ok
                                           THEN Some(count_answers[i].value)
                                           ELSE None)]),
                sent |-> <<listing>> \o [i \in 1..Len(rows) |-> counted(i)]]

\* App::clear_messages
clear_messages(a) == [a EXCEPT !.error_message = None, !.status_message = None]

\* handle_key_event for the key `r` on the table browser: a key pressed
\* while an error is showing only dismisses the messages; otherwise the
\* browser reloads the listing.
handle_table_browser_refresh(a, tables_answer, columns_answer) ==
  IF is_some(a.error_message)
  THEN clear_messages(a)
  ELSE LET r == refresh_tables(a, tables_answer, columns_answer)
       IN IF r.result.ok
          THEN r.app
          ELSE [r.app EXCEPT !.error_message =
                               Some("Failed to refresh tables: " \o r.result.msg)]

\* The key `r` on the table browser.  The exchange of the reload is kept in
\* backend_log.
RefreshTables ==
  /\ ~panicked
  /\ app.current_screen = "TableBrowser"
  /\ is_some(app.database_pool)
  /\ IF is_some(app.error_message)
     THEN /\ app' = handle_table_browser_refresh(app, NotAsked, NotAsked)
          /\ backend_log' = NoCall
     ELSE \E catalogue_answer \in CatalogueAnswers :
          \E count_answers \in CountAnswersFor(catalogue_answer) :
            LET listing == get_tables(unwrap(app.database_pool).config.database_type,
                                      catalogue_answer, count_answers)
            IN \E columns_answer \in IF listing.result.ok /\ Len(listing.result.value) > 0
                                     THEN GetTableColumnsAnswers ELSE {NotAsked} :
                 /\ app' = handle_table_browser_refresh(app, listing.result, columns_answer)
                 /\ backend_log' = [query |-> <<>>, sent |-> listing.sent]
  /\ UNCHANGED <<tasks, panicked>>

\* The table browser: one attempt that runs to its end, and reloads of the
\* listing on the handle it installs.
TablesNext ==
  \/ (Len(tasks) = 0 /\ StartConnection)
  \/ ConnectReturns
  \/ CheckConnectionTask
  \/ RefreshTables

TablesSpec == Init /\ [][TablesNext]_vars

\* ------------------------------------------------------------ the keyboard
\* ConnectionForm::next_field / previous_field
next_field(form) ==
  [form EXCEPT !.current_field =
     CASE @ = "Name" -> "ConnectionString"
       [] @ = "ConnectionString" -> "DatabaseType"
       [] @ = "DatabaseType" -> "Host"
       [] @ = "Host" -> "Port"
       [] @ = "Port" -> "Username"
       [] @ = "Username" -> "Password"
       [] @ = "Password" -> "Database"
       [] @ = "Database" -> "UseSsl"
       [] @ = "UseSsl" -> IF form.use_ssl THEN "SslMode" ELSE "Name"
       [] @ = "SslMode" -> "SslCertFile"
       [] @ = "SslCertFile" -> "SslKeyFile"
       [] @ = "SslKeyFile" -> "SslCaFile"
       [] @ = "SslCaFile" -> "Name"]

previous_field(form) ==
  [form EXCEPT !.current_field =
     CASE @ = "Name" -> "SslCaFile"
       [] @ = "ConnectionString" -> "Name"
       [] @ = "DatabaseType" -> "ConnectionString"
       [] @ = "Host" -> "DatabaseType"
       [] @ = "Port" -> "Host"
       [] @ = "Username" -> "Port"
       [] @ = "Password" -> "Username"
       [] @ = "Database" -> "Password"
       [] @ = "UseSsl" -> "Database"
       [] @ = "SslMode" -> "UseSsl"
       [] @ = "SslCertFile" -> "SslMode"
       [] @ = "SslKeyFile" -> "SslCertFile"
       [] @ = "SslCaFile" -> "SslKeyFile"]

is_toggle_field(form) == form.current_field \in {"UseSsl", "SslMode", "DatabaseType"}

\* ConnectionForm::get_current_field_value, for the fields that hold text
get_current_field_value(form) ==
  CASE form.current_field = "Name" -> form.name
    [] form.current_field = "ConnectionString" -> form.connection_string
    [] form.current_field = "Host" -> form.host
    [] form.current_field = "Port" -> form.port
    [] form.current_field = "Username" -> form.username
    [] form.current_field = "Password" -> form.password
    [] form.current_field = "Database" -> form.database
    [] form.current_field = "SslCertFile" -> form.ssl_cert_file
    [] form.current_field = "SslKeyFile" -> form.ssl_key_file
    [] form.current_field = "SslCaFile" -> form.ssl_ca_file

set_current_field_value(form, value) ==
  CASE form.current_field = "Name" -> [form EXCEPT !.name = value]
    [] form.current_field = "ConnectionString" -> [form EXCEPT !.connection_string = value]
    [] form.current_field = "Host" -> [form EXCEPT !.host = value]
    [] form.current_field = "Port" -> [form EXCEPT !.port = value]
    [] form.current_field = "Username" -> [form EXCEPT !.username = value]
    [] form.current_field = "Password" -> [form EXCEPT !.password = value]
    [] form.current_field = "Database" -> [form EXCEPT !.database = value]
    [] form.current_field = "SslCertFile" -> [form EXCEPT !.ssl_cert_file = value]
    [] form.current_field = "SslKeyFile" -> [form EXCEPT !.ssl_key_file = value]
    [] form.current_field = "SslCaFile" -> [form EXCEPT !.ssl_ca_file = value]
    [] OTHER -> form

\* urlencoding::encode: letters and digits are kept, the other characters
\* of the model are written as their percent code
RECURSIVE urlencoding_encode(_)
urlencoding_encode(s) ==
  LET PercentCode(c) ==
        CASE c = ":" -> <<"%","3","A">>
          [] c = "/" -> <<"%","2","F">>
          [] c = "@" -> <<"%","4","0">>
          [] c = " " -> <<"%","2","0">>
          [] OTHER -> <<c>>
  IN IF Len(s) = 0 THEN <<>>
     ELSE PercentCode(Head(s)) \o urlencoding_encode(Tail(s))

\* ConnectionForm::build_connection_string
build_connection_string(form) ==
  IF Len(form.connection_string) > 0
  THEN Some(form.connection_string)
  ELSE IF Len(form.host) = 0
       THEN None
       ELSE IF form.database_type = "SQLite"
            THEN Some(<<"s","q","l","i","t","e",":">> \o form.host)
            ELSE LET scheme == IF form.database_type = "PostgreSQL"
                               THEN <<"p","o","s","t","g","r","e","s","q","l",":","/","/">> ELSE <<"m","y","s","q","l",":","/","/">>
                     port == IF Len(form.port) = 0
                             THEN IF form.database_type = "PostgreSQL"
                                  THEN <<"5","4","3","2">> ELSE <<"3","3","0","6">>
                             ELSE form.port
                     encoded_username == urlencoding_encode(form.username)
                     encoded_password == urlencoding_encode(form.password)
                     encoded_database == urlencoding_encode(form.database)
                 IN IF Len(form.username) = 0
                    THEN Some(scheme \o form.host \o <<":">> \o port \o <<"/">>
                              \o encoded_database)
                    ELSE IF Len(form.password) = 0
                         THEN Some(scheme \o encoded_username \o <<"@">> \o form.host
                                   \o <<":">> \o port \o <<"/">> \o encoded_database)
                         ELSE Some(scheme \o encoded_username \o <<":">> \o encoded_password
                                   \o <<"@">> \o form.host \o <<":">> \o port \o <<"/">>
                                   \o encoded_database)

\* What save_connections returns: the file was written, or the write failed
SaveAnswers == {Ok(<<>>), Err("Permission denied (os error 13)")}

\* The optional text of a file name of the form
NonEmpty(s) == IF Len(s) = 0 THEN None ELSE Some(s)

\* App::save_edited_connection, with what save_connections returns
save_edited_connection(a, saved) ==
  IF is_none(a.editing_connection_index)
  THEN [app |-> a, result |-> Err("No connection being edited")]
  ELSE
    LET index == unwrap(a.editing_connection_index)
        form == a.connection_form
        connection_string == build_connection_string(form)
    IN IF index >= Len(a.connections)
       THEN [app |-> a, result |-> Err("Invalid connection index")]
       ELSE IF is_none(connection_string)
            THEN [app |-> a,
                  result |-> Err("Please provide either a connection string or fill in the individual fields (at least Host is required)")]
            ELSE
              LET made == ConnectionConfig_new(form.name, unwrap(connection_string))
                  config == IF form.use_ssl
                            THEN [made.value EXCEPT !.ssl_config =
                                    Some([mode |-> form.ssl_mode,
                                          cert_file |-> NonEmpty(form.ssl_cert_file),
                                          key_file |-> NonEmpty(form.ssl_key_file),
                                          ca_file |-> NonEmpty(form.ssl_ca_file)])]
                            ELSE made.value
                  a1 == [a EXCEPT !.connections[index + 1] = config]
              IN IF ~made.ok
                 THEN [app |-> a, result |-> Err("Invalid connection: " \o made.msg)]
                 ELSE IF ~saved.ok
                      THEN [app |-> a1,
                            result |-> Err("Failed to save connections: " \o saved.msg)]
                      ELSE [app |-> [a1 EXCEPT !.editing_connection_index = None,
                                               !.current_screen = "ConnectionList"],
                            result |-> Ok(<<>>)]

\* Key events.  A character key is Char(c) without modifiers.
Key(code) == [code |-> code, c |-> "", shift |-> FALSE]
Char(c) == [code |-> "Char", c |-> c, shift |-> FALSE]

\* The characters the user types: `n` opens the form on the connection list
\* and is a letter of a name everywhere else.  (`q`, `e`, `d`, `h` and the
\* toggle characters are commands of their own and are not typed.)
Keys == {Key("Esc"), Key("Enter"), Key("Tab"), Key("Up"), Key("Down"),
         Key("Backspace"), Char("n")}

\* handle_connection_list_keys, for the keys of the model
handle_connection_list_keys(a, t, key) ==
  CASE key = Char("n") ->
         St([a EXCEPT !.current_screen = "NewConnection",
                      !.connection_form = DefaultConnectionForm], t)
    [] key.code = "Up" -> St(previous_connection(a), t)
    [] key.code = "Down" -> St(next_connection(a), t)
    [] key.code = "Enter" ->
         IF Len(a.connections) > 0 /\ ~a.is_connecting
         THEN IF a.selected_connection_index >= Len(a.connections)
              THEN St([a EXCEPT !.error_message =
                         Some("Failed to start connection: " \o "Invalid connection index")],
                      t)
              ELSE start_connection(a, t, a.selected_connection_index)
         ELSE St(a, t)
    [] key.code = "Esc" -> St([a EXCEPT !.should_quit = TRUE], t)
    [] OTHER -> St(a, t)

\* handle_new_connection_keys, for the keys of the model
handle_new_connection_keys(a, key, saved) ==
  LET form == a.connection_form
  IN CASE key.code = "Tab" ->
            [a EXCEPT !.connection_form =
               IF key.shift THEN previous_field(form) ELSE next_field(form)]
       [] key.code = "Enter" ->
            IF Len(form.name) > 0
            THEN LET r == save_edited_connection(a, saved)
                 IN IF r.result.ok
                    THEN [r.app EXCEPT !.status_message =
                                         Some("Connection updated successfully")]
                    ELSE [r.app EXCEPT !.error_message =
                                         Some("Failed to update connection: "
                                              \o r.result.msg)]
            ELSE a
       [] key.code = "Esc" -> [a EXCEPT !.current_screen = "ConnectionList"]
       [] key.code = "Char" ->
            IF is_toggle_field(form)
            THEN a
            ELSE [a EXCEPT !.connection_form =
                    set_current_field_value(form,
                                            Append(get_current_field_value(form), key.c))]
       [] key.code = "Backspace" ->
            IF is_toggle_field(form)
            THEN a
            ELSE LET value == get_current_field_value(form)
                 IN [a EXCEPT !.connection_form =
                       set_current_field_value(form,
                                               SubSeq(value, 1, saturating_sub(Len(value), 1)))]
       [] OTHER -> a

is_input_field_active(a) ==
  a.current_screen \in {"NewConnection", "EditConnection", "QueryEditor"}

\* handle_key_event on the ConnectionList and NewConnection screens: a key
\* pressed while an error is showing only dismisses the messages; Esc cancels
\* the attempt in flight unless an input screen is active; every other key
\* goes to the handler of the screen.
handle_key_event(a, t, key, saved) ==
  IF is_some(a.error_message)
  THEN St(clear_messages(a), t)
  ELSE IF ~is_input_field_active(a) /\ key.code = "Esc" /\ a.is_connecting
       THEN cancel_connection(a, t)
       ELSE CASE a.current_screen = "ConnectionList" ->
                   handle_connection_list_keys(a, t, key)
              [] a.current_screen = "NewConnection" ->
                   St(handle_new_connection_keys(a, key, saved), t)

\* The longest text typed into a field of the form
MaxTyped == 1

\* The user presses a key.  The user types into the name and the connection
\* string of the form, MaxTyped characters at most, and walks through the
\* other fields with Tab.
KeyEvent ==
  /\ ~panicked
  /\ ~app.should_quit
  /\ \E key \in Keys, saved \in SaveAnswers :
       /\ (key.code = "Enter" /\ app.current_screen = "ConnectionList")
            => Len(tasks) < MaxAttempts
       /\ (key.code \in {"Char", "Backspace"} /\ app.current_screen = "NewConnection")
            => /\ app.connection_form.current_field \in {"Name", "ConnectionString"}
               /\ key.code = "Char"
                    => Len(get_current_field_value(app.connection_form)) < MaxTyped
       /\ Apply(handle_key_event(app, tasks, key, saved))

KeyNext == KeyEvent

KeySpec == Init /\ [][KeyNext]_vars

\* -------------------------------------------------------- browsing a table
\* An engine whose table t holds n rows, row i holding the number i.  It
\* answers the count statement with n and a SELECT with the rows of t, cut
\* at the LIMIT of the statement it is sent.
BrowseStatements == {<<"S","E","L","E","C","T"," ","*"," ","F","R","O","M"," ","t">>, <<"S","E","L","E","C","T"," ","*"," ","F","R","O","M"," ","t"," ","L","I","M","I","T"," ","1","0","0">>}

TableRows(n) == [i \in 1..n |-> <<IntCell(i)>>]

limit_of(sql) ==
  LET pos == rfind(to_uppercase(sql), <<" ","L","I","M","I","T"," ">>)
  IN IF is_some(pos)
     THEN parse_usize(trim(Slice(sql, unwrap(pos) + 7, Len(sql))))
     ELSE None

engine_count(n) == RowSet(<<"COUNT(*)">>, << <<IntCell(n)>> >>)

engine_select(n, sql) ==
  RowSet(<<"n">>, TableRows(IF is_some(limit_of(sql))
                            THEN Min(n, unwrap(limit_of(sql)))
                            ELSE n))

\* A SELECT on t is executed on the installed handle, t holding n rows
ExecuteOnTable ==
  /\ ~panicked
  /\ is_some(app.database_pool)
  /\ \E query \in BrowseStatements, n \in RowCounts :
       LET plan == query_plan(app, query)
           r == execute_query(app, query, plan, engine_count(n),
                              engine_select(n, plan.modified_query))
       IN /\ app' = r.app
          /\ backend_log' = r.log
          /\ panicked' = r.panic
  /\ UNCHANGED tasks

\* Browsing: one attempt that runs to its end, the statement executed on the
\* handle it installs, and the page keys on the result.
BrowseNext ==
  \/ (Len(tasks) = 0 /\ StartConnection)
  \/ ConnectReturns
  \/ CheckConnectionTask
  \/ ExecuteOnTable
  \/ NextPage
  \/ PreviousPage
  \/ HomeKey
  \/ EndKey

BrowseSpec == Init /\ [][BrowseNext]_vars

\* ------------------------------------------------------------------ claims
TaskIds == 1..Len(tasks)
Live == {id \in TaskIds : tasks[id].handle = "held"}
InFlight == is_some(app.connection_task)
Slot == unwrap(app.connection_task)
TimeoutMessage == "Connection failed: Connection failed: deadline has elapsed"
Installed(a, id) == is_some(a.database_pool) /\ unwrap(a.database_pool).attempt = id

\* C1: at most one connection task has been neither aborted nor consumed,
\* and a start_connection that spawns a task has cancelled the token of, and
\* aborted, the attempt that was in the slot.
AtMostOneLiveTask ==
  /\ [](Cardinality(Live) <= 1)
  /\ [][Len(tasks') > Len(tasks) =>
          \A id \in Live : /\ tasks'[id].handle = "aborted"
                           /\ tasks'[id].token_cancelled]_vars

SecondStartAbortedFirst ==
  /\ Len(tasks) >= 2
  /\ tasks[1].handle = "aborted"
  /\ tasks[1].token_cancelled
  /\ tasks[1].race = "dropped"
  /\ app.connection_task = Some(2)
  /\ tasks[2].handle = "held"

\* C2: once a newer attempt has been started, no step consumes the older
\* attempt or installs its handle as database_pool, whether or not the older
\* attempt had completed.
NeverInstallsSupersededAttempt ==
  [][\A id \in TaskIds :
       id < Len(tasks) =>
         /\ tasks'[id].handle = "joined" => tasks[id].handle = "joined"
         /\ Installed(app', id) => Installed(app, id)]_vars

SecondAttemptInstalledAfterFirstCompleted ==
  /\ Len(tasks) = 2
  /\ tasks[1].handle = "aborted"
  /\ tasks[1].race = "connected"
  /\ tasks[2].handle = "joined"
  /\ Installed(app, 2)

\* C3: a cancel_connection issued while an attempt is in the slot leaves
\* is_connecting false and the slot empty, and the cancelled attempt is never
\* consumed afterwards: no step installs its handle, and a poll switches to
\* the TableBrowser screen only for a held attempt that succeeded.
CancelledAttemptNeverInstalled ==
  [][/\ (CancelConnection /\ InFlight) =>
          /\ ~app'.is_connecting
          /\ is_none(app'.connection_task)
          /\ is_none(app'.cancel_token)
          /\ app'.status_message = Some("Connection cancelled")
          /\ tasks'[Slot].handle = "aborted"
     /\ \A id \in TaskIds :
          tasks[id].handle = "aborted" =>
            /\ tasks'[id].handle = "aborted"
            /\ Installed(app', id) => Installed(app, id)
     /\ (CheckConnectionTask /\ app'.current_screen = "TableBrowser"
                             /\ app.current_screen # "TableBrowser") =>
          /\ InFlight
          /\ tasks[Slot].handle = "held"
          /\ ~tasks[Slot].token_cancelled
          /\ tasks[Slot].race = "connected"]_vars

CancelledAfterConnectSucceeded ==
  /\ \E id \in TaskIds : /\ tasks[id].handle = "aborted"
                         /\ tasks[id].race = "connected"
                         /\ tasks[id].token_cancelled
  /\ ~InFlight
  /\ ~app.is_connecting
  /\ app.status_message = Some("Connection cancelled")
  /\ is_none(app.database_pool)
  /\ app.current_screen = "ConnectionList"

\* C4: is_connecting is false when cancel_connection returns; a poll that
\* finds the timeout elapsed sets is_connecting to false; and while the loop
\* keeps polling, an attempt does not stay in the Connecting state for ever,
\* even when its connect never returns.
LeavesConnecting ==
  /\ [][/\ CancelConnection => ~app'.is_connecting
        /\ (CheckConnectionTask /\ InFlight /\ tasks[Slot].race = "elapsed")
             => ~app'.is_connecting]_vars
  /\ (app.is_connecting /\ ~panicked) ~> (~app.is_connecting \/ panicked)

TimedOutAttemptEnded ==
  /\ \E id \in TaskIds : /\ tasks[id].handle = "joined"
                         /\ ~tasks[id].token_cancelled
                         /\ tasks[id].result = Dropped
  /\ ~InFlight
  /\ ~app.is_connecting
  /\ app.error_message = Some(TimeoutMessage)

\* C5: check_connection_task changes nothing when the slot is empty or holds
\* a task that has not finished.
PollIsNoOpUnlessFinished ==
  (~InFlight \/ ~is_finished(tasks, Slot)) =>
    \A tables_answer \in GetTablesAnswers, columns_answer \in GetTableColumnsAnswers :
      check_connection_task(app, tasks, tables_answer, columns_answer) = St(app, tasks)

PolledWhileRunning ==
  /\ InFlight
  /\ app.is_connecting
  /\ app.cancel_token = app.connection_task
  /\ tasks[Slot].status = "running"
  /\ tasks[Slot].elapsed > 0

\* C6: a poll that finds the attempt finished clears the slot and the token,
\* sets is_connecting to false and marks the task consumed; on success the
\* new handle is database_pool; on failure error_message is set and
\* database_pool and current_connection are unchanged; a consumed task is
\* never touched again.
OutcomeAppliedOnce ==
  [][/\ (CheckConnectionTask /\ InFlight /\ is_finished(tasks, Slot)) =>
          /\ is_none(app'.connection_task)
          /\ is_none(app'.cancel_token)
          /\ ~app'.is_connecting
          /\ tasks'[Slot].handle = "joined"
          /\ tasks[Slot].result.kind = "Ok" =>
               app'.database_pool = Some(PoolOf(tasks, Slot))
          /\ tasks[Slot].result.kind # "Ok" =>
               /\ is_some(app'.error_message)
               /\ app'.database_pool = app.database_pool
               /\ app'.current_connection = app.current_connection
     /\ \A id \in TaskIds : tasks[id].handle = "joined" => tasks'[id] = tasks[id]]_vars

\* C7: cancel_connection changes nothing when no attempt is in flight.
CancelWithoutAttemptIsNoOp ==
  ~InFlight =>
    cancel_connection(app, tasks) = St(app, tasks)

\* What the messages of the application state say about the end of the last
\* attempt.
Told(a) ==
  IF a.status_message = Some("Connection cancelled") THEN "cancelled"
  ELSE IF a.error_message = Some(TimeoutMessage) THEN "elapsed"
  ELSE IF \E e \in ConnectErrors : a.error_message = Some("Connection failed: " \o e)
       THEN "connect_error"
  ELSE "other"

\* C8: an attempt that was cancelled is never consumed, and the messages left
\* by a cancel, by a poll that finds the timeout elapsed and by a poll that
\* finds an engine error tell the three apart.
OutcomeToldByState ==
  /\ [](\A id \in TaskIds : ~(tasks[id].handle = "joined" /\ tasks[id].token_cancelled))
  /\ [][/\ (CancelConnection /\ InFlight) => Told(app') = "cancelled"
        /\ (CheckConnectionTask /\ InFlight /\ is_finished(tasks, Slot)
              /\ tasks[Slot].race \in {"elapsed", "connect_error"})
             => Told(app') = tasks[Slot].race]_vars

CancelledThenTimedOut ==
  /\ Len(tasks) = 2
  /\ tasks[1].handle = "aborted"
  /\ tasks[1].token_cancelled
  /\ tasks[2].handle = "joined"
  /\ ~tasks[2].token_cancelled
  /\ Told(app) = "elapsed"
  /\ is_none(app.status_message)

\* A first cell that reads as a non-negative integer
NonNegativeInteger(cell) ==
  \/ cell.ty = "i64" /\ cell.int >= 0
  \/ cell.ty = "f64" /\ cell.int >= 0 /\ cell.int % 10 = 0
  \/ cell.ty = "String" /\ \E n \in 0..9 : cell.text \in {<<Digits[n + 1]>>,
                                                         <<"+", Digits[n + 1]>>}

\* The answer to the count statement gives no count
CountUnusable(answer) ==
  \/ ~answer.ok
  \/ Len(answer.value.rows) = 0
  \/ Len(answer.value.columns) = 0
  \/ ~NonNegativeInteger(answer.value.rows[1][1])

\* C9: when the count statement of a SELECT fails, returns no row or returns
\* a first cell that is not a non-negative integer, the main statement is
\* still sent, and the result stored when it succeeds has total_count =
\* Some(0).
CountFailureDefaultsToZero ==
  (/\ Len(backend_log.sent) >= 1
   /\ backend_log.sent[1].step = "count"
   /\ CountUnusable(backend_log.sent[1].answer)) =>
     /\ Len(backend_log.sent) = 2
     /\ backend_log.sent[2].step = "main"
     /\ backend_log.sent[2].answer.ok =>
          /\ is_some(app.current_query_result)
          /\ unwrap(app.current_query_result).total_count = Some(0)

RowsStoredWithZeroCount ==
  /\ Len(backend_log.sent) = 2
  /\ backend_log.sent[1].step = "count"
  /\ backend_log.sent[1].answer.ok
  /\ Len(backend_log.sent[1].answer.value.rows) = 1
  /\ CountUnusable(backend_log.sent[1].answer)
  /\ is_some(app.current_query_result)
  /\ Len(unwrap(app.current_query_result).rows) > 0
  /\ unwrap(app.current_query_result).total_count = Some(0)

\* C10: a statement that does not start with SELECT is sent to the backend
\* once, unchanged, and no count statement is sent for it.
NonSelectSentUnchanged ==
  (/\ Len(backend_log.sent) >= 1
   /\ ~is_select(backend_log.query)) =>
     /\ Len(backend_log.sent) = 1
     /\ backend_log.sent[1].step = "main"
     /\ backend_log.sent[1].sql = backend_log.query

\* C11: after a successful execute_query of a statement that does not start
\* with SELECT, the stored result has total_count = None, and get_total_pages
\* is the number of pages of len(rows).
NonSelectStoresNoCount ==
  (/\ Len(backend_log.sent) = 1
   /\ ~is_select(backend_log.query)
   /\ backend_log.sent[1].step = "main"
   /\ backend_log.sent[1].answer.ok) =>
     /\ is_some(app.current_query_result)
     /\ unwrap(app.current_query_result).total_count = None
     /\ get_total_pages(app) =
          (Len(unwrap(app.current_query_result).rows) + app.results_per_page - 1)
            \div app.results_per_page

NoFromWrapsCleanedStatement ==
  \A f \in NoFromForms :
    backend_log.query = NoFromStatement(f) =>
      /\ ~panicked
      /\ Len(Counts) = 1 =>
           Counts[1].sql = <<"S","E","L","E","C","T"," ","C","O","U","N","T","(","*",")"," ","F","R","O","M"," ","(">> \o f.body \o <<")">>

\* C14: auto_limit_query applied to its own result returns it unchanged,
\* and a statement whose upper-cased text contains LIMIT is returned
\* unchanged.
AutoLimitIdempotent ==
  /\ \A i \in 2..Len(Mains) : Mains[i].sql = Mains[i - 1].sql
  /\ (Len(Mains) >= 1 /\ contains(to_uppercase(backend_log.query), <<"L","I","M","I","T">>))
       => Mains[1].sql = backend_log.query

LimitAppendedOnce ==
  /\ backend_log.query = <<"s","e","l","e","c","t"," ","a",","," ","b"," ","F","r","o","m"," ","t"," ","W","H","E","R","E"," ","x","=","1",";">>
  /\ Len(Mains) = 2
  /\ Mains[1].sql = <<"s","e","l","e","c","t"," ","a",","," ","b"," ","F","r","o","m"," ","t"," ","W","H","E","R","E"," ","x","=","1"," ","L","I","M","I","T"," ","5","0">>
  /\ Mains[2].sql = Mains[1].sql

\* C15: a statement whose upper-cased text contains SELECT and no LIMIT is
\* returned as a prefix of itself that does not end in a semicolon (also
\* not in a semicolon followed by whitespace), what is cut being semicolons
\* and whitespace only, followed by " LIMIT <results_per_page>"; every other
\* statement is returned unchanged.
AutoLimitStripsTerminator ==
  Len(Mains) >= 1 =>
    LET q == backend_log.query
        out == Mains[1].sql
        query_upper == to_uppercase(q)
    IN IF contains(query_upper, <<"S","E","L","E","C","T">>) /\ ~contains(query_upper, <<"L","I","M","I","T">>)
       THEN \E n \in 0..Len(q) :
              LET base == SubSeq(q, 1, n)
                  kept == trim_end(base)
              IN /\ out = base \o <<" ","L","I","M","I","T"," ">> \o usize_to_string(app.results_per_page)
                 /\ \A i \in (n + 1)..Len(q) : q[i] = ";" \/ is_whitespace(q[i])
                 /\ Len(kept) > 0 => kept[Len(kept)] # ";"
       ELSE out = q

\* The page that get_current_page_results returns at page index p
PageAt(p) == get_current_page_results([app EXCEPT !.current_page = p])

\* C16: at every page index p, get_current_page_results returns
\* rows[p*s .. min((p+1)*s, len(rows))], the empty list when p*s >= len(rows)
\* or when no result is stored, and never more than s rows.
PageIsSliceOfRows ==
  \A p \in {app.current_page} \cup 0..(get_total_pages(app) + 1) :
    LET s == app.results_per_page
    IN /\ Len(PageAt(p)) <= s
       /\ IF is_some(app.current_query_result)
             /\ p * s < Len(unwrap(app.current_query_result).rows)
          THEN LET rows == unwrap(app.current_query_result).rows
               IN PageAt(p) = [i \in 1..(Min((p + 1) * s, Len(rows)) - p * s) |->
                                 rows[p * s + i]]
          ELSE PageAt(p) = <<>>

ShortLastPageShown ==
  /\ is_some(app.current_query_result)
  /\ Len(unwrap(app.current_query_result).rows) > 2 * app.results_per_page
  /\ app.current_page = 2
  /\ Len(get_current_page_results(app)) =
       Len(unwrap(app.current_query_result).rows) - 2 * app.results_per_page

\* C17: get_total_pages is the least n with n * results_per_page >= T, T
\* being total_count when it is present and len(rows) otherwise, and 0 when
\* no result is stored.
TotalPagesIsCeiling ==
  IF is_some(app.current_query_result)
  THEN LET result == unwrap(app.current_query_result)
           T == IF is_some(result.total_count)
                THEN unwrap(result.total_count) ELSE Len(result.rows)
           n == get_total_pages(app)
       IN /\ n * app.results_per_page >= T
          /\ n > 0 => (n - 1) * app.results_per_page < T
          /\ T = 0 => n = 0
  ELSE get_total_pages(app) = 0

SecondPageOfUncountedResult ==
  /\ is_some(app.current_query_result)
  /\ unwrap(app.current_query_result).total_count = None
  /\ Len(unwrap(app.current_query_result).rows) = app.results_per_page + 1
  /\ get_total_pages(app) = 2
  /\ app.current_page = 1

RECURSIVE ConcatPages(_, _)
ConcatPages(p, n) == IF p >= n THEN <<>> ELSE PageAt(p) \o ConcatPages(p + 1, n)

\* C18: when total_count is absent or equal to len(rows), the pages 0 ..
\* get_total_pages()-1, put one after the other, are exactly rows.
PagesReconstructRows ==
  (/\ is_some(app.current_query_result)
   /\ unwrap(app.current_query_result).total_count
        \in {None, Some(Len(unwrap(app.current_query_result).rows))}) =>
     ConcatPages(0, get_total_pages(app)) = unwrap(app.current_query_result).rows

LastOfThreePagesOfCountedResult ==
  /\ is_some(app.current_query_result)
  /\ unwrap(app.current_query_result).total_count
       = Some(Len(unwrap(app.current_query_result).rows))
  /\ get_total_pages(app) = 3
  /\ app.current_page = 2
  /\ Len(get_current_page_results(app)) < app.results_per_page

RowsMatchColumns(result) ==
  \A r \in 1..Len(result.rows) : Len(result.rows[r]) = Len(result.columns)

\* C19: every QueryResult that DatabasePool::execute_query returns, and so
\* every stored result, has exactly len(columns) cells in every row.
EveryRowHasOneCellPerColumn ==
  /\ \A i \in 1..Len(backend_log.sent) :
       LET returned == pool_execute_query(backend_log.sent[i].answer)
       IN returned.ok => RowsMatchColumns(returned.value)
  /\ is_some(app.current_query_result) =>
       RowsMatchColumns(unwrap(app.current_query_result))

UnevenDriverRowsStored ==
  /\ Len(backend_log.sent) >= 1
  /\ LET answer == backend_log.sent[Len(backend_log.sent)].answer
     IN /\ answer.ok
        /\ \E r \in 1..Len(answer.value.rows) :
             Len(answer.value.rows[r]) < Len(answer.value.columns)
        /\ \E r \in 1..Len(answer.value.rows) :
             Len(answer.value.rows[r]) > Len(answer.value.columns)
  /\ is_some(app.current_query_result)
  /\ Len(unwrap(app.current_query_result).rows) = 4
  /\ unwrap(app.current_query_result).rows[3] = <<<<"2",".","5">>, <<"N","U","L","L">>>>
  /\ unwrap(app.current_query_result).rows[4] = <<<<"7">>, <<"8">>>>

\* The recognised prefixes and the engine kind each one fixes
Schemes == { [prefix |-> <<"s","q","l","i","t","e",":">>, kind |-> "SQLite"],
             [prefix |-> <<"p","o","s","t","g","r","e","s",":","/","/">>, kind |-> "PostgreSQL"],
             [prefix |-> <<"p","o","s","t","g","r","e","s","q","l",":","/","/">>, kind |-> "PostgreSQL"],
             [prefix |-> <<"m","y","s","q","l",":","/","/">>, kind |-> "MySQL"] }

\* C20: ConnectionConfig::new succeeds exactly when the connection string
\* starts with a recognised prefix, and then stores the engine kind of that
\* prefix; otherwise it returns an error and add_connection leaves the
\* connection list (and the rest of the App) unchanged.
SchemeDecidesConnectionConfig ==
  \A name \in Names, url \in Urls :
    LET config == ConnectionConfig_new(name, url)
        added == add_connection(app, name, url)
        schemes == {sc \in Schemes : starts_with(url, sc.prefix)}
    IN /\ config.ok <=> schemes # {}
       /\ config.ok =>
            /\ \A sc \in schemes : config.value.database_type = sc.kind
            /\ config.value.name = name
            /\ config.value.connection_string = url
            /\ added.result.ok
            /\ added.app.connections = Append(app.connections, config.value)
       /\ ~config.ok =>
            /\ ~added.result.ok
            /\ added.app = app

MySqlDescriptorAdded ==
  /\ Len(app.connections) = NumConnections + 1
  /\ app.connections[Len(app.connections)] =
       [name |-> "Demo SQLite Database", database_type |-> "MySQL",
        connection_string |-> <<"m","y","s","q","l",":","/","/","h","/","d">>, ssl_config |-> None]

\* The reload whose exchange is in backend_log: the catalogue rows it was
\* answered and the count statements it sent
Reloaded == /\ Len(backend_log.sent) > 0
            /\ backend_log.sent[1].step = "tables"
            /\ backend_log.sent[1].answer.ok
CatalogueRows == backend_log.sent[1].answer.value
TableCounts == Tail(backend_log.sent)
CountFailed == \E i \in 1..Len(TableCounts) : ~TableCounts[i].answer.ok

\* C21: on every engine, when the count statement of one table fails,
\* get_tables still returns the listing of every catalogue row (stored in
\* tables by the reload), with row_count = None for the table whose count
\* failed and the counted number for the others.
CountFailureKeepsListing ==
  (Reloaded /\ CountFailed) =>
    /\ Len(app.tables) = Len(CatalogueRows)
    /\ Len(TableCounts) = Len(CatalogueRows)
    /\ \A i \in 1..Len(CatalogueRows) :
         /\ app.tables[i].name = CatalogueRows[i].tablename
         /\ app.tables[i].row_count = IF TableCounts[i].answer.ok
                                      THEN Some(TableCounts[i].answer.value)
                                      ELSE None

\* The last statement of the exchange in backend_log is a main statement
\* that the engine refused
MainFailed(log) == /\ Len(log.sent) > 0
                   /\ log.sent[Len(log.sent)].step = "main"
                   /\ ~log.sent[Len(log.sent)].answer.ok

\* C22: when the main statement fails, execute_query returns the error of
\* the engine and stores "Query failed: <that error>" in error_message, and
\* current_query_result, current_screen, current_page and query_history are
\* what they were before the call.
FailedStatementKeepsStoredResult ==
  [][(tasks' = tasks /\ MainFailed(backend_log')) =>
       LET sent == backend_log'.sent
           main_answer == sent[Len(sent)].answer
           count_answer == IF Len(sent) > 1 THEN sent[1].answer ELSE NotAsked
           planned == CHOOSE p \in Plans(app) : p.query = backend_log'.query
           r == execute_query(app, planned.query, planned.plan, count_answer, main_answer)
       IN /\ r.app = app'
          /\ r.result = Err(main_answer.msg)
          /\ app'.error_message = Some("Query failed: " \o main_answer.msg)
          /\ app'.current_query_result = app.current_query_result
          /\ app'.current_screen = app.current_screen
          /\ app'.current_page = app.current_page
          /\ app'.query_history = app.query_history]_vars

StoredResultSurvivedFailure ==
  /\ MainFailed(backend_log)
  /\ is_some(app.current_query_result)
  /\ Len(unwrap(app.current_query_result).rows) > 0
  /\ app.current_screen = "QueryResults"
  /\ Len(app.query_history) = 1
  /\ is_some(app.error_message)

\* C23: when a poll installs the handle of an attempt, the poll returns,
\* current_connection is an index of the connection list, the descriptor at
\* that index is the one start_connection was called with for the attempt,
\* and the status message is "Connected to " followed by its name, whatever
\* selection moves and removals were made while the attempt was in flight.
InstalledHandleNamesStartedDescriptor ==
  [][\A id \in TaskIds :
       (Installed(app', id) /\ ~Installed(app, id)) =>
         LET started == unwrap(app'.database_pool).config
         IN /\ ~panicked'
            /\ is_some(app'.current_connection)
            /\ unwrap(app'.current_connection) < Len(app'.connections)
            /\ app'.connections[unwrap(app'.current_connection) + 1] = started
            /\ app'.status_message = Some("Connected to " \o started.name)]_vars

\* What one Esc key event makes of the present state
AfterEsc == handle_key_event(app, tasks, Key("Esc"), Ok(<<>>))

\* C24: whenever an attempt is in flight, one Esc key event cancels it:
\* after handle_key_event, is_connecting is false and the slot is empty, on
\* every screen and whatever messages are showing.
EscAlwaysCancelsAttempt ==
  (app.is_connecting /\ ~app.should_quit) =>
    /\ ~AfterEsc.app.is_connecting
    /\ is_none(AfterEsc.app.connection_task)

\* What one Enter key event makes of the present state when the list can be
\* saved, and the connection string the form stands for
AfterEnter == handle_key_event(app, tasks, Key("Enter"), Ok(<<>>))
FormConnectionString == build_connection_string(app.connection_form)

\* C29: on the NewConnection screen (no error showing), Enter with a
\* non-empty name and a connection string of a recognised scheme appends
\* exactly one descriptor, the one of the form, to the connection list and
\* returns to the ConnectionList screen.
EnterOnNewConnectionAppends ==
  (/\ app.current_screen = "NewConnection"
   /\ is_none(app.error_message)
   /\ Len(app.connection_form.name) > 0
   /\ is_some(FormConnectionString)
   /\ from_url(unwrap(FormConnectionString)).ok) =>
    /\ AfterEnter.app.connections =
         Append(app.connections,
                ConnectionConfig_new(app.connection_form.name,
                                     unwrap(FormConnectionString)).value)
    /\ AfterEnter.app.current_screen = "ConnectionList"

\* C25: a poll issues no backend query: in every state, what
\* check_connection_task leaves behind is the same whatever the database
\* would answer to get_tables and get_table_columns, and the poll is not one
\* that asks the backend.
PollNeverAsksBackend ==
  ~panicked =>
    /\ ~AsksBackend(app, tasks)
    /\ \A tables_answer \in GetTablesAnswers,
          columns_answer \in GetTableColumnsAnswers :
         check_connection_task(app, tasks, tables_answer, columns_answer)
           = check_connection_task(app, tasks, NotAsked, NotAsked)

\* C26: generate_count_query returns a statement for every text: it never
\* slices outside the text it cuts, also when LIMIT occurs before the first
\* FROM.
CountQueryNeverSlicesOutside ==
  /\ ~panicked
  /\ ~generate_count_query(app, backend_log.query).panic

\* C27: leading whitespace does not change the count statement: for a
\* statement that execute_query classifies as a SELECT, generate_count_query
\* returns what it returns for the statement without its leading whitespace.
CountQueryIgnoresLeadingWhitespace ==
  is_select(backend_log.query) =>
    /\ generate_count_query(app, backend_log.query)
         = generate_count_query(app, trim_start(backend_log.query))
    /\ Len(Counts) = 1 =>
         Counts[1].sql = generate_count_query(app, trim_start(backend_log.query)).value

\* The result on display was stored by a SELECT whose count statement and
\* main statement both succeeded
CountedSelectStored ==
  /\ is_some(app.current_query_result)
  /\ Len(backend_log.sent) = 2
  /\ backend_log.sent[1].step = "count"
  /\ backend_log.sent[1].answer.ok
  /\ backend_log.sent[2].answer.ok

\* C28: for the result stored by a successful SELECT whose count statement
\* succeeded, every page below get_total_pages() shows rows.
EveryReachablePageShowsRows ==
  CountedSelectStored =>
    \A p \in 0..(get_total_pages(app) - 1) :
      get_current_page_results([app EXCEPT !.current_page = p]) # <<>>

\* The list without the descriptor at index i (from 0)
Without(list, i) == SubSeq(list, 1, i) \o SubSeq(list, i + 2, Len(list))

\* C30: in every state, current_connection is present exactly when
\* database_pool is, and is then an index of the connection list; a removal
\* of descriptor i leaves current_connection on the descriptor it was on
\* (with the same handle), and when i is the current connection it drops
\* the handle and shows the ConnectionList screen.
CurrentConnectionFollowsItsDescriptor ==
  /\ [](/\ is_some(app.current_connection) <=> is_some(app.database_pool)
        /\ is_some(app.current_connection) =>
             unwrap(app.current_connection) < Len(app.connections))
  /\ [][Len(app'.connections) < Len(app.connections) =>
          LET i == CHOOSE i \in 0..(Len(app.connections) - 1) :
                     app'.connections = Without(app.connections, i)
              current == unwrap(app.current_connection)
          IN IF is_none(app.current_connection)
             THEN is_none(app'.current_connection)
             ELSE IF current = i
                  THEN /\ is_none(app'.current_connection)
                       /\ is_none(app'.database_pool)
                       /\ app'.current_screen = "ConnectionList"
                  ELSE /\ is_some(app'.current_connection)
                       /\ unwrap(app'.current_connection) < Len(app'.connections)
                       /\ app'.connections[unwrap(app'.current_connection) + 1]
                            = app.connections[current + 1]
                       /\ app'.database_pool = app.database_pool
                       /\ app'.current_screen = app.current_screen]_vars
====
